---- MODULE Spec2Model ----
(***************************************************************************)
(* HUB75 LED matrix driver (Kezii/ESP32-HUB75-TELEGRAMBOT).                *)
(*                                                                         *)
(* The repository holds three pieces that drive the panel:                 *)
(*   panel.rs  - MatrixPanel: a bit-banged refresh thread ("direct" mode)  *)
(*               reading an Arc<Mutex<FrameBuffer>>;                       *)
(*   hub75.rs  - Hub75::render_unoptimized: unrolls one refresh cycle into *)
(*               a Vec<u32> of GPIO register words ("timeline" mode);      *)
(*   main.rs   - FRAME_BUFFER: RwLock<Frame>, written by                   *)
(*               draw_image_to_framebuffer and read by the render thread.  *)
(* A build runs one of them; the variable strategy says which. Pins::new,   *)
(* the two correction functions, and the lifetime of several MatrixPanels  *)
(* (initialize_panel called again) are followed on their own.              *)
(***************************************************************************)
EXTENDS Integers, Sequences, FiniteSets, TLC

\* ------------------------------------------------------------------ bounds
\* panel.rs:12 has 64 columns and hub75.rs:208 / main.rs:154 the literal 64;
\* the model scans MATRIX_WIDTH columns.
MATRIX_WIDTH == 2
\* panel.rs:13 has 64 physical rows; the direct-mode model has MATRIX_HEIGHT.
MATRIX_HEIGHT == 4
\* number of operations the application thread performs on the panel
MaxOps == 2

\* ------------------------------------------------------- program constants
MATRIX_ROWS_IN_PARALLEL == 2
SCAN_ROWS == MATRIX_HEIGHT \div MATRIX_ROWS_IN_PARALLEL
COLOR_DEPTH_BITS == 8

Pow2(n) == 2 ^ n
\* i32 arithmetic of the delay computation (values kept within 32 bits)
I32_MIN == (0 - 2147483647) - 1
\* 1 << n in i32: the shift amount is taken modulo 32, bit 31 is the sign bit
ShlOneI32(n) == IF n % 32 < 31 THEN Pow2(n % 32) ELSE I32_MIN
\* v * 2 in i32, wrapping
MulTwoI32(v) ==
    IF v >= 1073741824 THEN ((v - 1073741824) * 2) + I32_MIN
    ELSE IF v < 0 - 1073741824 THEN (((v + 1073741824) * 2) + 2147483647) + 1
    ELSE v * 2
\* bit n of an unsigned value
Bit(v, n) == (v \div Pow2(n)) % 2
\* v & mask != 0 for a u8 mask; the mask 1 << bit_plane is truncated to 8 bits
AndMaskNonZero(v, mask) ==
    \E n \in 0..7 : Bit(v, n) = 1 /\ Bit(mask % 256, n) = 1

\* PinConfig::default()
PinConfig ==
    [r1 |-> 38, g1 |-> 14, b1 |-> 39, r2 |-> 21, g2 |-> 12, b2 |-> 47,
     a |-> 48, b |-> 10, c |-> 45, d |-> 9, e |-> 11,
     lat |-> 46, oe |-> 40, clk |-> 0]

PanelGpios == { PinConfig[f] : f \in DOMAIN PinConfig }
RgbGpios == { PinConfig.r1, PinConfig.g1, PinConfig.b1,
              PinConfig.r2, PinConfig.g2, PinConfig.b2 }
AddrGpios == { PinConfig.a, PinConfig.b, PinConfig.c, PinConfig.d, PinConfig.e }

\* Color and its associated constants
Color(r, g, b) == [r |-> r, g |-> g, b |-> b]
BLACK == Color(0, 0, 0)
RED   == Color(255, 0, 0)
GREEN == Color(0, 255, 0)
BLUE  == Color(0, 0, 255)
WHITE == Color(255, 255, 255)

\* colours the application passes to fill_screen / set_pixel
AppColors == { BLACK, WHITE }

\* FrameBuffer::new: data is a vector of width * height colours, index y*width+x
PixelIndexes == 0 .. (MATRIX_WIDTH * MATRIX_HEIGHT - 1)
FrameBufferNew == [i \in PixelIndexes |-> BLACK]

\* FrameBuffer::fill
FrameBufferFill(data, color) == [i \in DOMAIN data |-> color]

\* FrameBuffer::set_pixel: out-of-range coordinates are ignored
FrameBufferSetPixel(data, x, y, color) ==
    IF x < MATRIX_WIDTH /\ y < MATRIX_HEIGHT
    THEN [data EXCEPT ![y * MATRIX_WIDTH + x] = color]
    ELSE data

\* FrameBuffer::get_pixel: out-of-range coordinates read as black
FrameBufferGetPixel(data, x, y) ==
    IF x < MATRIX_WIDTH /\ y < MATRIX_HEIGHT
    THEN data[y * MATRIX_WIDTH + x]
    ELSE BLACK

\* the stripe colour display_test_pattern gives column x
TestPatternColor(x) ==
    IF x < MATRIX_WIDTH \div 3 THEN RED
    ELSE IF x < (2 * MATRIX_WIDTH) \div 3 THEN GREEN
    ELSE BLUE

\* the image display_test_pattern leaves when all its set_pixel calls are done
TestPatternImage ==
    [i \in PixelIndexes |-> TestPatternColor(i % MATRIX_WIDTH)]

VARIABLES
    strategy,        \* the piece of the program that runs: "direct", "timeline",
                     \* "main", "pins" (Pins::new), "tables" (corrections)
                     \* or "panels" (panel.rs, any number of panels)
    \* ---- panel.rs
    initialized,     \* MatrixPanel.initialized
    refresh_running, \* MatrixPanel.refresh_running (Mutex<bool>)
    framebuffer,     \* MatrixPanel.framebuffer: FrameBuffer.data
    fbHolders,       \* threads holding the framebuffer Mutex
    PANEL_INSTANCE,  \* the global Option<MatrixPanel>: TRUE when Some
    gpio,            \* output level of each GPIO the panel drives
    rpc,             \* refresh thread: position in refresh_loop
    bit_plane,       \* refresh_loop: for bit_plane in 0..COLOR_DEPTH_BITS
    row,             \* refresh_loop: for row in 0..SCAN_ROWS
    col,             \* shift_row_data: for col in 0..MATRIX_WIDTH
    display_time_us, \* refresh_loop: the last delay handed to esp_rom_delay_us
    apc,             \* application thread: position in the current operation
    aop,             \* application thread: arguments of the current operation
    opsDone,         \* operations the application thread has started
    preImage,        \* framebuffer content when the current update began
    postImage,       \* framebuffer content the current update produces
    stopReturned,    \* stop() has returned to its caller
    planesVisited,   \* bit planes refresh_loop entered in the current cycle
    latchedAfterStop, \* latch pulses given with the running flag cleared
    latched_row,     \* row whose data the last latch pulse took, -1 if none
    \* ---- hub75.rs, render_unoptimized
    t_pc,            \* position in render_unoptimized
    t_pins,          \* self.pins: the bit position of each of the 14 roles
    t_image,         \* the image argument
    t_dimensions,    \* image.dimensions()
    t_latched_row,   \* row whose data the last LAT pulse took, -1 if none
    current_gpio_state, \* the u32 being built, as the set of its 1 bits
    gpio_states,     \* the Vec<u32> returned: length, first and last words
    t_bit_plane,     \* for bit_plane in (0..BIT_DEPTH).rev()
    t_rep,           \* for _ in 0..frames_to_display
    t_row,           \* for row in 0..32
    t_col,           \* for col in 0..64
    t_scans,         \* full 32-row scans emitted so far for each bit plane
    t_planes,        \* bit planes render_unoptimized entered, in order
    \* ---- main.rs
    FRAME_BUFFER,    \* the static RwLock<Frame>: its content [plane][row][col]
    rwWriter,        \* a thread holds the write guard of FRAME_BUFFER
    rwReaders,       \* number of read guards of FRAME_BUFFER held
    m_pc,            \* main thread: position in draw_image_to_framebuffer
    m_image,         \* draw_image_to_framebuffer: the image argument
    m_x,             \* draw_image_to_framebuffer: for x in 0..64
    m_y,             \* draw_image_to_framebuffer: for y in 0..64
    m_draws,         \* calls of draw_image_to_framebuffer so far
    render_pc,       \* render thread: position in its loop
    committed,       \* FRAME_BUFFER as the last completed draw left it
    \* ---- hub75.rs, Pins::new
    pins_pc,         \* position in Pins::new
    pins_args,       \* the GPIO number of each of the 14 AnyOutputPin arguments
    overflow_checks, \* the build panics on an overflowing shift (debug profile)
    pins_value,      \* the Pins value returned, << >> while there is none
    all_pin_mask,    \* get_all_pin_mask() as returned: the set of its 1 bits
    \* ---- lightness_correct (hub75.rs) and gamma_correct (main.rs)
    c_pc,            \* position of the call of the correction function
    c_fn,            \* the function called
    c_value,         \* its argument, a u8
    c_inverted,      \* lightness_correct: inverted_16bit
    c_result,        \* the value returned
    \* ---- panel.rs, every MatrixPanel the program constructs
    panels,          \* the MatrixPanels constructed so far: for each its
                     \* initialized field and its refresh_running flag
    instance,        \* PANEL_INSTANCE: the index of the panel it holds, 0 if None
    threads,         \* the refresh threads spawned so far: for each the panel
                     \* whose flag it reads and its position in refresh_loop
    oe_level,        \* level of the OE pin, which every panel's PinConfig names
    caller_pc,       \* calling thread: position in the current call
    caller_op,       \* calling thread: the function called
    caller_panel,    \* calling thread: the panel the call works on
    calls            \* calls started so far

panelVars == << initialized, refresh_running, framebuffer, fbHolders,
                PANEL_INSTANCE, gpio, rpc, bit_plane, row, col,
                display_time_us, apc, aop, opsDone, preImage, postImage,
                stopReturned, planesVisited, latchedAfterStop, latched_row >>

tlVars == << t_pc, t_pins, t_image, t_dimensions, t_latched_row,
             current_gpio_state, gpio_states,
             t_bit_plane, t_rep, t_row, t_col, t_scans, t_planes >>

mainVars == << FRAME_BUFFER, rwWriter, rwReaders, m_pc, m_image, m_x, m_y,
               m_draws, render_pc, committed >>

pinsVars == << pins_pc, pins_args, overflow_checks, pins_value, all_pin_mask >>

tableVars == << c_pc, c_fn, c_value, c_inverted, c_result >>

lifeVars == << panels, instance, threads, oe_level, caller_pc, caller_op,
               caller_panel, calls >>

vars == << strategy, panelVars, tlVars, mainVars, pinsVars, tableVars,
           lifeVars >>


\* ------------------------------------------------------------ panel.rs
\* esp_idf_sys::gpio_set_level
GpioSetLevel(g, pin, level) == [g EXCEPT ![pin] = level]

\* a lock that hands out the guard although another thread holds one
MutexFree_Always(holders) == TRUE

\* std::sync::Mutex::lock returns only when no thread holds the mutex
MutexFree(holders) == holders = {}

NoOp == [op |-> "none", x |-> 0, y |-> 0, color |-> BLACK, i |-> 0]

\* the application thread may start another operation
AppIdle == strategy = "direct" /\ apc = "idle" /\ opsDone < MaxOps

\* initialize_panel: MatrixPanel::new() followed by begin(); this part follows
\* the one panel of a program that calls it once, further calls are followed
\* in the part on the lifetime of the MatrixPanels
InitializePanelCall ==
    /\ AppIdle /\ ~PANEL_INSTANCE
    /\ apc' = "begin_check"
    /\ aop' = [NoOp EXCEPT !.op = "initialize_panel"]
    /\ opsDone' = opsDone + 1
    /\ UNCHANGED << strategy, lifeVars, tableVars, pinsVars, tlVars, mainVars,
                    planesVisited,
                    latchedAfterStop, latched_row,
                    initialized, refresh_running, framebuffer,
                    fbHolders, PANEL_INSTANCE, gpio, rpc, bit_plane, row, col,
                    display_time_us, preImage, postImage, stopReturned >>

\* get_panel() followed by MatrixPanel::begin on the stored panel
BeginCall ==
    /\ AppIdle /\ PANEL_INSTANCE
    /\ apc' = "begin_check"
    /\ aop' = [NoOp EXCEPT !.op = "begin"]
    /\ opsDone' = opsDone + 1
    /\ UNCHANGED << strategy, lifeVars, tableVars, pinsVars, tlVars, mainVars,
                    planesVisited,
                    latchedAfterStop, latched_row,
                    initialized, refresh_running, framebuffer,
                    fbHolders, PANEL_INSTANCE, gpio, rpc, bit_plane, row, col,
                    display_time_us, preImage, postImage, stopReturned >>

\* MatrixPanel::begin: if self.initialized { return Ok(true) }
BeginCheck ==
    /\ apc = "begin_check"
    /\ IF initialized
       THEN /\ apc' = "idle"
            /\ PANEL_INSTANCE' = (PANEL_INSTANCE \/ aop.op = "initialize_panel")
       ELSE /\ apc' = "init_pins_oe"
            /\ UNCHANGED PANEL_INSTANCE
    /\ UNCHANGED << strategy, lifeVars, tableVars, pinsVars, tlVars, mainVars,
                    planesVisited,
                    latchedAfterStop, latched_row,
                    initialized, refresh_running, framebuffer,
                    fbHolders, gpio, rpc, bit_plane, row, col,
                    display_time_us, aop, opsDone, preImage, postImage,
                    stopReturned >>

\* init_pins_state, first write: OE high (output disabled)
InitPinsOe ==
    /\ apc = "init_pins_oe"
    /\ gpio' = GpioSetLevel(gpio, PinConfig.oe, 1)
    /\ apc' = "init_pins_rest"
    /\ UNCHANGED << strategy, lifeVars, tableVars, pinsVars, tlVars, mainVars,
                    planesVisited,
                    latchedAfterStop, latched_row,
                    initialized, refresh_running, framebuffer,
                    fbHolders, PANEL_INSTANCE, rpc, bit_plane, row, col,
                    display_time_us, aop, opsDone, preImage, postImage,
                    stopReturned >>

\* init_pins_state, remaining writes: LAT, CLK, RGB and address lines low
InitPinsRest ==
    /\ apc = "init_pins_rest"
    /\ gpio' = [p \in PanelGpios |->
                  IF p = PinConfig.oe THEN gpio[p] ELSE 0]
    /\ apc' = "start_refresh"
    /\ UNCHANGED << strategy, lifeVars, tableVars, pinsVars, tlVars, mainVars,
                    planesVisited,
                    latchedAfterStop, latched_row,
                    initialized, refresh_running, framebuffer,
                    fbHolders, PANEL_INSTANCE, rpc, bit_plane, row, col,
                    display_time_us, aop, opsDone, preImage, postImage,
                    stopReturned >>

\* begin: self.initialized = true; start_refresh_thread: set the running flag
\* and spawn refresh_loop; initialize_panel then stores the panel globally
StartRefreshThread ==
    /\ apc = "start_refresh"
    /\ initialized' = TRUE
    /\ refresh_running' = TRUE
    /\ rpc' = "while_check"
    /\ PANEL_INSTANCE' = (PANEL_INSTANCE \/ aop.op = "initialize_panel")
    /\ apc' = "idle"
    /\ UNCHANGED << strategy, lifeVars, tableVars, pinsVars, tlVars, mainVars,
                    planesVisited,
                    latchedAfterStop, latched_row,
                    framebuffer, fbHolders, gpio, bit_plane, row,
                    col, display_time_us, aop, opsDone, preImage, postImage,
                    stopReturned >>

\* MatrixPanel::fill_screen is called (display_blank_screen, display_color_screen)
FillScreenCall ==
    /\ AppIdle /\ PANEL_INSTANCE
    /\ \E color \in AppColors :
          /\ aop' = [NoOp EXCEPT !.op = "fill_screen", !.color = color]
          /\ postImage' = FrameBufferFill(framebuffer, color)
    /\ preImage' = framebuffer
    /\ apc' = "fill_lock"
    /\ opsDone' = opsDone + 1
    /\ UNCHANGED << strategy, lifeVars, tableVars, pinsVars, tlVars, mainVars,
                    planesVisited,
                    latchedAfterStop, latched_row,
                    initialized, refresh_running, framebuffer,
                    fbHolders, PANEL_INSTANCE, gpio, rpc, bit_plane, row, col,
                    display_time_us, stopReturned >>

\* fill_screen: self.framebuffer.lock()
FillLock ==
    /\ apc = "fill_lock"
    /\ MutexFree(fbHolders)
    /\ fbHolders' = fbHolders \cup {"app"}
    /\ apc' = "fill_write"
    /\ UNCHANGED << strategy, lifeVars, tableVars, pinsVars, tlVars, mainVars,
                    planesVisited,
                    latchedAfterStop, latched_row,
                    initialized, refresh_running, framebuffer,
                    PANEL_INSTANCE, gpio, rpc, bit_plane, row, col,
                    display_time_us, aop, opsDone, preImage, postImage,
                    stopReturned >>

\* fill_screen: fb.fill(color) stores the colour element by element
FillWrite ==
    /\ apc = "fill_write"
    /\ aop.i < MATRIX_WIDTH * MATRIX_HEIGHT
    /\ framebuffer' = [framebuffer EXCEPT ![aop.i] = aop.color]
    /\ aop' = [aop EXCEPT !.i = aop.i + 1]
    /\ UNCHANGED << strategy, lifeVars, tableVars, pinsVars, tlVars, mainVars,
                    planesVisited,
                    latchedAfterStop, latched_row,
                    initialized, refresh_running, fbHolders,
                    PANEL_INSTANCE, gpio, rpc, bit_plane, row, col,
                    display_time_us, apc, opsDone, preImage, postImage,
                    stopReturned >>

\* fill_screen: the guard is dropped at the end of the if-let block
FillUnlock ==
    /\ apc = "fill_write"
    /\ aop.i = MATRIX_WIDTH * MATRIX_HEIGHT
    /\ fbHolders' = fbHolders \ {"app"}
    /\ apc' = "idle"
    /\ UNCHANGED << strategy, lifeVars, tableVars, pinsVars, tlVars, mainVars,
                    planesVisited,
                    latchedAfterStop, latched_row,
                    initialized, refresh_running, framebuffer,
                    PANEL_INSTANCE, gpio, rpc, bit_plane, row, col,
                    display_time_us, aop, opsDone, preImage, postImage,
                    stopReturned >>

\* coordinates the application passes to set_pixel; MATRIX_WIDTH is out of range
SetPixelInputs ==
    { <<0, 0>>, <<MATRIX_WIDTH - 1, MATRIX_HEIGHT - 1>>, <<MATRIX_WIDTH, 0>> }

\* MatrixPanel::set_pixel is called on its own
SetPixelCall ==
    /\ AppIdle /\ PANEL_INSTANCE
    /\ \E xy \in SetPixelInputs, color \in AppColors :
          /\ aop' = [NoOp EXCEPT !.op = "set_pixel",
                                 !.x = xy[1], !.y = xy[2], !.color = color]
          /\ postImage' = FrameBufferSetPixel(framebuffer, xy[1], xy[2], color)
    /\ preImage' = framebuffer
    /\ apc' = "set_pixel_lock"
    /\ opsDone' = opsDone + 1
    /\ UNCHANGED << strategy, lifeVars, tableVars, pinsVars, tlVars, mainVars,
                    planesVisited,
                    latchedAfterStop, latched_row,
                    initialized, refresh_running, framebuffer,
                    fbHolders, PANEL_INSTANCE, gpio, rpc, bit_plane, row, col,
                    display_time_us, stopReturned >>

\* display_test_pattern is called; it reaches the panel through get_panel()
DisplayTestPatternCall ==
    /\ AppIdle /\ PANEL_INSTANCE
    /\ aop' = [NoOp EXCEPT !.op = "display_test_pattern",
                           !.color = TestPatternColor(0)]
    /\ preImage' = framebuffer
    /\ postImage' = TestPatternImage
    /\ apc' = "set_pixel_lock"
    /\ opsDone' = opsDone + 1
    /\ UNCHANGED << strategy, lifeVars, tableVars, pinsVars, tlVars, mainVars,
                    planesVisited,
                    latchedAfterStop, latched_row,
                    initialized, refresh_running, framebuffer,
                    fbHolders, PANEL_INSTANCE, gpio, rpc, bit_plane, row, col,
                    display_time_us, stopReturned >>

\* set_pixel: self.framebuffer.lock()
SetPixelLock ==
    /\ apc = "set_pixel_lock"
    /\ MutexFree(fbHolders)
    /\ fbHolders' = fbHolders \cup {"app"}
    /\ apc' = "set_pixel_write"
    /\ UNCHANGED << strategy, lifeVars, tableVars, pinsVars, tlVars, mainVars,
                    planesVisited,
                    latchedAfterStop, latched_row,
                    initialized, refresh_running, framebuffer,
                    PANEL_INSTANCE, gpio, rpc, bit_plane, row, col,
                    display_time_us, aop, opsDone, preImage, postImage,
                    stopReturned >>

\* set_pixel: fb.set_pixel(x, y, color)
SetPixelWrite ==
    /\ apc = "set_pixel_write"
    /\ framebuffer' = FrameBufferSetPixel(framebuffer, aop.x, aop.y, aop.color)
    /\ apc' = "set_pixel_unlock"
    /\ UNCHANGED << strategy, lifeVars, tableVars, pinsVars, tlVars, mainVars,
                    planesVisited,
                    latchedAfterStop, latched_row,
                    initialized, refresh_running, fbHolders,
                    PANEL_INSTANCE, gpio, rpc, bit_plane, row, col,
                    display_time_us, aop, opsDone, preImage, postImage,
                    stopReturned >>

\* set_pixel returns and drops the guard; inside display_test_pattern the
\* loops for x in 0..MATRIX_WIDTH, for y in 0..MATRIX_HEIGHT go on
SetPixelUnlock ==
    /\ apc = "set_pixel_unlock"
    /\ fbHolders' = fbHolders \ {"app"}
    /\ IF aop.op = "display_test_pattern"
       THEN LET ny == IF aop.y + 1 < MATRIX_HEIGHT THEN aop.y + 1 ELSE 0
                nx == IF aop.y + 1 < MATRIX_HEIGHT THEN aop.x ELSE aop.x + 1
            IN  IF nx < MATRIX_WIDTH
                THEN /\ aop' = [aop EXCEPT !.x = nx, !.y = ny,
                                           !.color = TestPatternColor(nx)]
                     /\ apc' = "set_pixel_lock"
                ELSE /\ apc' = "idle"
                     /\ UNCHANGED aop
       ELSE /\ apc' = "idle"
            /\ UNCHANGED aop
    /\ UNCHANGED << strategy, lifeVars, tableVars, pinsVars, tlVars, mainVars,
                    planesVisited,
                    latchedAfterStop, latched_row,
                    initialized, refresh_running, framebuffer,
                    PANEL_INSTANCE, gpio, rpc, bit_plane, row, col,
                    display_time_us, opsDone, preImage, postImage,
                    stopReturned >>

\* MatrixPanel::stop: clears the running flag and returns
Stop ==
    /\ AppIdle /\ PANEL_INSTANCE
    /\ refresh_running' = FALSE
    /\ stopReturned' = TRUE
    /\ aop' = [NoOp EXCEPT !.op = "stop"]
    /\ opsDone' = opsDone + 1
    /\ UNCHANGED << strategy, lifeVars, tableVars, pinsVars, tlVars, mainVars,
                    planesVisited,
                    latchedAfterStop, latched_row,
                    initialized, framebuffer, fbHolders,
                    PANEL_INSTANCE, gpio, rpc, bit_plane, row, col,
                    display_time_us, apc, preImage, postImage >>

\* Drop for MatrixPanel: if self.initialized { self.stop() }; the panel is gone
DropPanel ==
    /\ AppIdle /\ PANEL_INSTANCE
    /\ IF initialized
       THEN refresh_running' = FALSE /\ stopReturned' = TRUE
       ELSE UNCHANGED << refresh_running, stopReturned >>
    /\ aop' = [NoOp EXCEPT !.op = "drop"]
    /\ apc' = "dropped"
    /\ opsDone' = opsDone + 1
    /\ UNCHANGED << strategy, lifeVars, tableVars, pinsVars, tlVars, mainVars,
                    planesVisited,
                    latchedAfterStop, latched_row,
                    initialized, framebuffer, fbHolders,
                    PANEL_INSTANCE, gpio, rpc, bit_plane, row, col,
                    display_time_us, preImage, postImage >>


\* ---- refresh_loop (the thread spawned by start_refresh_thread)
\* while *refresh_running.lock().unwrap() { for bit_plane in 0.. ; after the
\* loop: disable output
RefreshWhileCheck ==
    /\ rpc = "while_check"
    /\ IF refresh_running
       THEN bit_plane' = 0 /\ rpc' = "plane_check" /\ planesVisited' = << >>
       ELSE rpc' = "final_oe" /\ UNCHANGED << bit_plane, planesVisited >>
    /\ UNCHANGED << strategy, lifeVars, tableVars, pinsVars, tlVars, mainVars,
                    latchedAfterStop, latched_row,
                    initialized, refresh_running, framebuffer,
                    fbHolders, PANEL_INSTANCE, gpio, row, col,
                    display_time_us, apc, aop, opsDone, preImage, postImage,
                    stopReturned >>

\* for bit_plane in 0..COLOR_DEPTH_BITS { if !running { break } for row in 0..
RefreshPlaneCheck ==
    /\ rpc = "plane_check"
    /\ IF bit_plane < COLOR_DEPTH_BITS /\ refresh_running
       THEN /\ row' = 0 /\ rpc' = "row_check"
            /\ planesVisited' = Append(planesVisited, bit_plane)
       ELSE rpc' = "while_check" /\ UNCHANGED << row, planesVisited >>
    /\ UNCHANGED << strategy, lifeVars, tableVars, pinsVars, tlVars, mainVars,
                    latchedAfterStop, latched_row,
                    initialized, refresh_running, framebuffer,
                    fbHolders, PANEL_INSTANCE, gpio, bit_plane, col,
                    display_time_us, apc, aop, opsDone, preImage, postImage,
                    stopReturned >>

\* a row loop that does not read the running flag
RefreshRowCheck_NoFlagRead ==
    /\ rpc = "row_check"
    /\ IF row < SCAN_ROWS
       THEN rpc' = "oe_high" /\ UNCHANGED bit_plane
       ELSE rpc' = "plane_check" /\ bit_plane' = bit_plane + 1
    /\ UNCHANGED << strategy, lifeVars, tableVars, pinsVars, tlVars, mainVars,
                    planesVisited,
                    latchedAfterStop, latched_row,
                    initialized, refresh_running, framebuffer,
                    fbHolders, PANEL_INSTANCE, gpio, row, col,
                    display_time_us, apc, aop, opsDone, preImage, postImage,
                    stopReturned >>

\* for row in 0..SCAN_ROWS { if !running { break } ...; a finished or broken
\* row loop goes on with the next bit plane
RefreshRowCheck ==
    /\ rpc = "row_check"
    /\ IF row < SCAN_ROWS /\ refresh_running
       THEN rpc' = "oe_high" /\ UNCHANGED bit_plane
       ELSE rpc' = "plane_check" /\ bit_plane' = bit_plane + 1
    /\ UNCHANGED << strategy, lifeVars, tableVars, pinsVars, tlVars, mainVars,
                    planesVisited,
                    latchedAfterStop, latched_row,
                    initialized, refresh_running, framebuffer,
                    fbHolders, PANEL_INSTANCE, gpio, row, col,
                    display_time_us, apc, aop, opsDone, preImage, postImage,
                    stopReturned >>

\* a row step that leaves OE as it is before it updates the lines
RefreshOeHigh_Skipped ==
    /\ rpc = "oe_high"
    /\ rpc' = "set_row_address"
    /\ UNCHANGED << strategy, lifeVars, tableVars, pinsVars, tlVars, mainVars,
                    planesVisited,
                    latchedAfterStop, latched_row,
                    initialized, refresh_running, framebuffer,
                    fbHolders, PANEL_INSTANCE, gpio, bit_plane, row, col,
                    display_time_us, apc, aop, opsDone, preImage, postImage,
                    stopReturned >>

\* gpio_set_level(pins.oe, 1): disable output while updating
RefreshOeHigh ==
    /\ rpc = "oe_high"
    /\ gpio' = GpioSetLevel(gpio, PinConfig.oe, 1)
    /\ rpc' = "set_row_address"
    /\ UNCHANGED << strategy, lifeVars, tableVars, pinsVars, tlVars, mainVars,
                    planesVisited,
                    latchedAfterStop, latched_row,
                    initialized, refresh_running, framebuffer,
                    fbHolders, PANEL_INSTANCE, bit_plane, row, col,
                    display_time_us, apc, aop, opsDone, preImage, postImage,
                    stopReturned >>

\* the level of address line n (A = 0 .. E = 4) for a row: row & (1 << n)
AddrLevel(r, n) == Bit(r, n)

\* an address step that selects the row after the one being loaded
RefreshSetRowAddress_NextRow ==
    /\ rpc = "set_row_address"
    /\ gpio' = [gpio EXCEPT ![PinConfig.a] = AddrLevel(row + 1, 0),
                            ![PinConfig.b] = AddrLevel(row + 1, 1),
                            ![PinConfig.c] = AddrLevel(row + 1, 2),
                            ![PinConfig.d] = AddrLevel(row + 1, 3),
                            ![PinConfig.e] = AddrLevel(row + 1, 4)]
    /\ rpc' = "lock_fb"
    /\ UNCHANGED << strategy, lifeVars, tableVars, pinsVars, tlVars, mainVars,
                    planesVisited,
                    latchedAfterStop, latched_row,
                    initialized, refresh_running, framebuffer,
                    fbHolders, PANEL_INSTANCE, bit_plane, row, col,
                    display_time_us, apc, aop, opsDone, preImage, postImage,
                    stopReturned >>

\* set_row_address
RefreshSetRowAddress ==
    /\ rpc = "set_row_address"
    /\ gpio' = [gpio EXCEPT ![PinConfig.a] = AddrLevel(row, 0),
                            ![PinConfig.b] = AddrLevel(row, 1),
                            ![PinConfig.c] = AddrLevel(row, 2),
                            ![PinConfig.d] = AddrLevel(row, 3),
                            ![PinConfig.e] = AddrLevel(row, 4)]
    /\ rpc' = "lock_fb"
    /\ UNCHANGED << strategy, lifeVars, tableVars, pinsVars, tlVars, mainVars,
                    planesVisited,
                    latchedAfterStop, latched_row,
                    initialized, refresh_running, framebuffer,
                    fbHolders, PANEL_INSTANCE, bit_plane, row, col,
                    display_time_us, apc, aop, opsDone, preImage, postImage,
                    stopReturned >>

\* if let Ok(fb) = framebuffer.lock(): waits until the mutex is free
RefreshLockFb ==
    /\ rpc = "lock_fb"
    /\ MutexFree(fbHolders)
    /\ fbHolders' = fbHolders \cup {"refresh"}
    /\ col' = 0
    /\ rpc' = "shift_data"
    /\ UNCHANGED << strategy, lifeVars, tableVars, pinsVars, tlVars, mainVars,
                    planesVisited,
                    latchedAfterStop, latched_row,
                    initialized, refresh_running, framebuffer,
                    PANEL_INSTANCE, gpio, bit_plane, row,
                    display_time_us, apc, aop, opsDone, preImage, postImage,
                    stopReturned >>

\* shift_row_data: the level of one RGB line: (channel & bit_mask) != 0
PlaneLevel(channel, plane) ==
    IF AndMaskNonZero(channel, Pow2(plane)) THEN 1 ELSE 0

\* shift_row_data, one column: read both pixels, set the six RGB lines
RefreshShiftData ==
    /\ rpc = "shift_data"
    /\ IF col < MATRIX_WIDTH
       THEN LET pixel_upper == FrameBufferGetPixel(framebuffer, col, row)
                pixel_lower == FrameBufferGetPixel(framebuffer, col, row + SCAN_ROWS)
            IN  /\ gpio' = [gpio EXCEPT
                      ![PinConfig.r1] = PlaneLevel(pixel_upper.r, bit_plane),
                      ![PinConfig.g1] = PlaneLevel(pixel_upper.g, bit_plane),
                      ![PinConfig.b1] = PlaneLevel(pixel_upper.b, bit_plane),
                      ![PinConfig.r2] = PlaneLevel(pixel_lower.r, bit_plane),
                      ![PinConfig.g2] = PlaneLevel(pixel_lower.g, bit_plane),
                      ![PinConfig.b2] = PlaneLevel(pixel_lower.b, bit_plane)]
                /\ rpc' = "clk_high"
       ELSE /\ rpc' = "unlock_fb"
            /\ UNCHANGED gpio
    /\ UNCHANGED << strategy, lifeVars, tableVars, pinsVars, tlVars, mainVars,
                    planesVisited,
                    latchedAfterStop, latched_row,
                    initialized, refresh_running, framebuffer,
                    fbHolders, PANEL_INSTANCE, bit_plane, row, col,
                    display_time_us, apc, aop, opsDone, preImage, postImage,
                    stopReturned >>

\* shift_row_data: gpio_set_level(pins.clk, 1)
RefreshClkHigh ==
    /\ rpc = "clk_high"
    /\ gpio' = GpioSetLevel(gpio, PinConfig.clk, 1)
    /\ rpc' = "clk_low"
    /\ UNCHANGED << strategy, lifeVars, tableVars, pinsVars, tlVars, mainVars,
                    planesVisited,
                    latchedAfterStop, latched_row,
                    initialized, refresh_running, framebuffer,
                    fbHolders, PANEL_INSTANCE, bit_plane, row, col,
                    display_time_us, apc, aop, opsDone, preImage, postImage,
                    stopReturned >>

\* shift_row_data: gpio_set_level(pins.clk, 0), next column
RefreshClkLow ==
    /\ rpc = "clk_low"
    /\ gpio' = GpioSetLevel(gpio, PinConfig.clk, 0)
    /\ col' = col + 1
    /\ rpc' = "shift_data"
    /\ UNCHANGED << strategy, lifeVars, tableVars, pinsVars, tlVars, mainVars,
                    planesVisited,
                    latchedAfterStop, latched_row,
                    initialized, refresh_running, framebuffer,
                    fbHolders, PANEL_INSTANCE, bit_plane, row,
                    display_time_us, apc, aop, opsDone, preImage, postImage,
                    stopReturned >>

\* a refresh thread that leaves the if-let block without dropping its guard
RefreshUnlockFb_KeepsGuard ==
    /\ rpc = "unlock_fb"
    /\ rpc' = "lat_high"
    /\ UNCHANGED << strategy, lifeVars, tableVars, pinsVars, tlVars, mainVars,
                    planesVisited,
                    latchedAfterStop, latched_row,
                    initialized, refresh_running, framebuffer, fbHolders,
                    PANEL_INSTANCE, gpio, bit_plane, row, col,
                    display_time_us, apc, aop, opsDone, preImage, postImage,
                    stopReturned >>

\* the MutexGuard fb is dropped at the end of the if-let block
RefreshUnlockFb ==
    /\ rpc = "unlock_fb"
    /\ fbHolders' = fbHolders \ {"refresh"}
    /\ rpc' = "lat_high"
    /\ UNCHANGED << strategy, lifeVars, tableVars, pinsVars, tlVars, mainVars,
                    planesVisited,
                    latchedAfterStop, latched_row,
                    initialized, refresh_running, framebuffer,
                    PANEL_INSTANCE, gpio, bit_plane, row, col,
                    display_time_us, apc, aop, opsDone, preImage, postImage,
                    stopReturned >>

\* latch_data: gpio_set_level(pins.lat, 1)
RefreshLatHigh ==
    /\ rpc = "lat_high"
    /\ gpio' = GpioSetLevel(gpio, PinConfig.lat, 1)
    /\ latched_row' = row
    /\ latchedAfterStop' = IF refresh_running THEN latchedAfterStop
                           ELSE latchedAfterStop + 1
    /\ rpc' = "lat_low"
    /\ UNCHANGED << strategy, lifeVars, tableVars, pinsVars, tlVars, mainVars,
                    planesVisited,
                    initialized, refresh_running, framebuffer,
                    fbHolders, PANEL_INSTANCE, bit_plane, row, col,
                    display_time_us, apc, aop, opsDone, preImage, postImage,
                    stopReturned >>

\* a latch pulse that is broken off when the running flag has been cleared:
\* LAT stays high and the loop is left
RefreshLatLow_BreaksOnStop ==
    /\ rpc = "lat_low"
    /\ IF refresh_running
       THEN gpio' = GpioSetLevel(gpio, PinConfig.lat, 0) /\ rpc' = "oe_low"
       ELSE rpc' = "final_oe" /\ UNCHANGED gpio
    /\ UNCHANGED << strategy, lifeVars, tableVars, pinsVars, tlVars, mainVars,
                    planesVisited,
                    latchedAfterStop, latched_row,
                    initialized, refresh_running, framebuffer,
                    fbHolders, PANEL_INSTANCE, bit_plane, row, col,
                    display_time_us, apc, aop, opsDone, preImage, postImage,
                    stopReturned >>

\* latch_data: gpio_set_level(pins.lat, 0)
RefreshLatLow ==
    /\ rpc = "lat_low"
    /\ gpio' = GpioSetLevel(gpio, PinConfig.lat, 0)
    /\ rpc' = "oe_low"
    /\ UNCHANGED << strategy, lifeVars, tableVars, pinsVars, tlVars, mainVars,
                    planesVisited,
                    latchedAfterStop, latched_row,
                    initialized, refresh_running, framebuffer,
                    fbHolders, PANEL_INSTANCE, bit_plane, row, col,
                    display_time_us, apc, aop, opsDone, preImage, postImage,
                    stopReturned >>

\* gpio_set_level(pins.oe, 0): enable output for this row
RefreshOeLow ==
    /\ rpc = "oe_low"
    /\ gpio' = GpioSetLevel(gpio, PinConfig.oe, 0)
    /\ rpc' = "delay"
    /\ UNCHANGED << strategy, lifeVars, tableVars, pinsVars, tlVars, mainVars,
                    planesVisited,
                    latchedAfterStop, latched_row,
                    initialized, refresh_running, framebuffer,
                    fbHolders, PANEL_INSTANCE, bit_plane, row, col,
                    display_time_us, apc, aop, opsDone, preImage, postImage,
                    stopReturned >>

\* let display_time_us = (1 << bit_plane) * 2, computed in i32
DisplayTimeUs(plane) == MulTwoI32(ShlOneI32(plane))

\* esp_rom_delay_us(display_time_us as u32): the cast keeps a value >= 0;
\* the row loop goes on
RefreshDelay ==
    /\ rpc = "delay"
    /\ display_time_us' = DisplayTimeUs(bit_plane)
    /\ row' = row + 1
    /\ rpc' = "row_check"
    /\ UNCHANGED << strategy, lifeVars, tableVars, pinsVars, tlVars, mainVars,
                    planesVisited,
                    latchedAfterStop, latched_row,
                    initialized, refresh_running, framebuffer,
                    fbHolders, PANEL_INSTANCE, gpio, bit_plane, col,
                    apc, aop, opsDone, preImage, postImage, stopReturned >>

\* a refresh thread that ends without disabling the output
RefreshFinalOe_Skipped ==
    /\ rpc = "final_oe"
    /\ rpc' = "done"
    /\ UNCHANGED << strategy, lifeVars, tableVars, pinsVars, tlVars, mainVars,
                    planesVisited,
                    latchedAfterStop, latched_row,
                    initialized, refresh_running, framebuffer,
                    fbHolders, PANEL_INSTANCE, gpio, bit_plane, row, col,
                    display_time_us, apc, aop, opsDone, preImage, postImage,
                    stopReturned >>

\* after the while loop: gpio_set_level(pins.oe, 1), the thread ends
RefreshFinalOe ==
    /\ rpc = "final_oe"
    /\ gpio' = GpioSetLevel(gpio, PinConfig.oe, 1)
    /\ rpc' = "done"
    /\ UNCHANGED << strategy, lifeVars, tableVars, pinsVars, tlVars, mainVars,
                    planesVisited,
                    latchedAfterStop, latched_row,
                    initialized, refresh_running, framebuffer,
                    fbHolders, PANEL_INSTANCE, bit_plane, row, col,
                    display_time_us, apc, aop, opsDone, preImage, postImage,
                    stopReturned >>

\* ------------------------------------------------------------ hub75.rs
\* a table that rises from 0 to 65535
PWM_TABLE_Ascending == [i \in 1 .. 256 |-> (i - 1) * 257]

PWM_TABLE == <<
    65535, 65508, 65479, 65451, 65422, 65394, 65365, 65337, 65308, 65280, 65251, 65223, 65195,
    65166, 65138, 65109, 65081, 65052, 65024, 64995, 64967, 64938, 64909, 64878, 64847, 64815,
    64781, 64747, 64711, 64675, 64637, 64599, 64559, 64518, 64476, 64433, 64389, 64344, 64297,
    64249, 64200, 64150, 64099, 64046, 63992, 63937, 63880, 63822, 63763, 63702, 63640, 63577,
    63512, 63446, 63379, 63310, 63239, 63167, 63094, 63019, 62943, 62865, 62785, 62704, 62621,
    62537, 62451, 62364, 62275, 62184, 62092, 61998, 61902, 61804, 61705, 61604, 61501, 61397,
    61290, 61182, 61072, 60961, 60847, 60732, 60614, 60495, 60374, 60251, 60126, 59999, 59870,
    59739, 59606, 59471, 59334, 59195, 59053, 58910, 58765, 58618, 58468, 58316, 58163, 58007,
    57848, 57688, 57525, 57361, 57194, 57024, 56853, 56679, 56503, 56324, 56143, 55960, 55774,
    55586, 55396, 55203, 55008, 54810, 54610, 54408, 54203, 53995, 53785, 53572, 53357, 53140,
    52919, 52696, 52471, 52243, 52012, 51778, 51542, 51304, 51062, 50818, 50571, 50321, 50069,
    49813, 49555, 49295, 49031, 48764, 48495, 48223, 47948, 47670, 47389, 47105, 46818, 46529,
    46236, 45940, 45641, 45340, 45035, 44727, 44416, 44102, 43785, 43465, 43142, 42815, 42486,
    42153, 41817, 41478, 41135, 40790, 40441, 40089, 39733, 39375, 39013, 38647, 38279, 37907,
    37531, 37153, 36770, 36385, 35996, 35603, 35207, 34808, 34405, 33999, 33589, 33175, 32758,
    32338, 31913, 31486, 31054, 30619, 30181, 29738, 29292, 28843, 28389, 27932, 27471, 27007,
    26539, 26066, 25590, 25111, 24627, 24140, 23649, 23153, 22654, 22152, 21645, 21134, 20619,
    20101, 19578, 19051, 18521, 17986, 17447, 16905, 16358, 15807, 15252, 14693, 14129, 13562,
    12990, 12415, 11835, 11251, 10662, 10070, 9473, 8872, 8266, 7657, 7043, 6424, 5802,
    5175, 4543, 3908, 3267, 2623, 1974, 1320, 662, 0 >>

\* a correction that keeps the top byte of the table entry without inverting it
lightness_correct_NotInverted(value) ==
    LET corrected_16bit == PWM_TABLE[value + 1]
    IN  corrected_16bit \div 256

\* lightness_correct: invert the 16-bit table entry and keep its top byte
lightness_correct(value) ==
    LET corrected_16bit == PWM_TABLE[value + 1]
        inverted_16bit == 65535 - corrected_16bit
    IN  inverted_16bit \div 256

\* render_unoptimized: const BIT_DEPTH
BIT_DEPTH == 5
\* render_unoptimized: for row in 0..32, lower half at row + 32
TIMELINE_ROWS == 32

\* a u32 register word is kept as the set of the positions of its 1 bits;
\* 1 << pin takes the shift amount modulo the 32-bit width
OneShl(pin) == { pin % 32 }
\* word |= 1 << pin
SetBit(word, pin) == word \cup OneShl(pin)
\* word &= !(1 << pin)
ClearBit(word, pin) == word \ OneShl(pin)
\* if bit != 0 { word |= 1 << pin } else { word &= !(1 << pin) }
PutBit(word, pin, bit) == IF bit # 0 THEN SetBit(word, pin) ELSE ClearBit(word, pin)

\* the pins main() hands to Pins::new
MainPins ==
    [r1 |-> 12, g1 |-> 13, b1 |-> 14, r2 |-> 15, g2 |-> 16, b2 |-> 17,
     a |-> 4, b |-> 5, c |-> 6, d |-> 7, e |-> 8,
     clk |-> 3, lat |-> 9, oe |-> 10]

\* another assignment Pins::new accepts: 14 distinct positions below 32, with
\* the RGB pins at the positions its doc comment names and the lowest and the
\* highest bit of the word in use
AltPins ==
    [r1 |-> 2, g1 |-> 4, b1 |-> 5, r2 |-> 18, g2 |-> 19, b2 |-> 21,
     a |-> 26, b |-> 27, c |-> 28, d |-> 29, e |-> 30,
     clk |-> 0, lat |-> 1, oe |-> 31]

\* images handed to render_unoptimized / draw_image_to_framebuffer
Images == { "black", "white", "red", "ramp" }

\* image.get_pixel(x, y): the channels [0] = red, [1] = green, [2] = blue
GetPixel(image, x, y) ==
    CASE image = "black" -> << 0, 0, 0 >>
      [] image = "white" -> << 255, 255, 255 >>
      [] image = "red"   -> << 255, 0, 0 >>
      [] OTHER           -> << (4 * y + x) % 256, 255 - 3 * y, (97 * x + 13 * y) % 256 >>

\* a column step that reads the lower pixel from the upper half
ColumnData_SameRow(word, pins, image, column, scan_row, plane) ==
    LET pixel_upper == GetPixel(image, column, scan_row)
        pixel_lower == GetPixel(image, column, scan_row)
        bit_offset == (8 - BIT_DEPTH) + plane
        r1_bit == Bit(lightness_correct(pixel_upper[3]), bit_offset)
        g1_bit == Bit(lightness_correct(pixel_upper[1]), bit_offset)
        b1_bit == Bit(lightness_correct(pixel_upper[2]), bit_offset)
        r2_bit == Bit(lightness_correct(pixel_lower[3]), bit_offset)
        g2_bit == Bit(lightness_correct(pixel_lower[1]), bit_offset)
        b2_bit == Bit(lightness_correct(pixel_lower[2]), bit_offset)
    IN  PutBit(PutBit(PutBit(PutBit(PutBit(PutBit(word,
            pins.r1, r1_bit), pins.g1, g1_bit), pins.b1, b1_bit),
            pins.r2, r2_bit), pins.g2, g2_bit), pins.b2, b2_bit)

\* the six RGB bits of one column. The code indexes the pixel as
\* r1 <- [2], g1 <- [0], b1 <- [1] (and the same for the lower pixel).
ColumnData(word, pins, image, column, scan_row, plane) ==
    LET pixel_upper == GetPixel(image, column, scan_row)
        pixel_lower == GetPixel(image, column, scan_row + 32)
        bit_offset == (8 - BIT_DEPTH) + plane
        r1_bit == Bit(lightness_correct(pixel_upper[3]), bit_offset)
        g1_bit == Bit(lightness_correct(pixel_upper[1]), bit_offset)
        b1_bit == Bit(lightness_correct(pixel_upper[2]), bit_offset)
        r2_bit == Bit(lightness_correct(pixel_lower[3]), bit_offset)
        g2_bit == Bit(lightness_correct(pixel_lower[1]), bit_offset)
        b2_bit == Bit(lightness_correct(pixel_lower[2]), bit_offset)
    IN  PutBit(PutBit(PutBit(PutBit(PutBit(PutBit(word,
            pins.r1, r1_bit), pins.g1, g1_bit), pins.b1, b1_bit),
            pins.r2, r2_bit), pins.g2, g2_bit), pins.b2, b2_bit)

\* clear the six RGB bits at the start of a row
ClearRgb(word, pins) ==
    ClearBit(ClearBit(ClearBit(ClearBit(ClearBit(ClearBit(word,
        pins.r1), pins.g1), pins.b1), pins.r2), pins.g2), pins.b2)

\* an address step that drives only the four lines A to D
RowAddress_NoE(word, pins, scan_row) ==
    PutBit(PutBit(PutBit(PutBit(word,
        pins.a, Bit(scan_row, 0)), pins.b, Bit(scan_row, 1)),
        pins.c, Bit(scan_row, 2)), pins.d, Bit(scan_row, 3))

\* set the five address bits to the row number
RowAddress(word, pins, scan_row) ==
    PutBit(PutBit(PutBit(PutBit(PutBit(word,
        pins.a, Bit(scan_row, 0)), pins.b, Bit(scan_row, 1)),
        pins.c, Bit(scan_row, 2)), pins.d, Bit(scan_row, 3)),
        pins.e, Bit(scan_row, 4))

\* a repeat count that grows linearly with the plane
FramesToDisplay_Linear(plane) == plane + 1

\* let frames_to_display = 1 << bit_plane
FramesToDisplay(plane) == Pow2(plane)

\* gpio_states.push(word): the vector is kept as its length, its first word,
\* its last two words, the sequence of its last TailLen words, the number of
\* words at its end that have the OE bit clear (on_run), the lengths of
\* the maximal runs of such words that have ended (runs), the low-to-high
\* changes of the CLK bit since the last low-to-high change of the LAT bit
\* (clk_rises) and the values that count had at the changes of LAT (clk_pulses)
TailLen == 6
EmptyVec == [len |-> 0, first |-> {}, prev |-> {}, last |-> {}, tail |-> << >>,
             on_run |-> 0, runs |-> {}, clk_rises |-> 0, clk_pulses |-> {}]
Push(vec, word) ==
    LET oe_high == OneShl(t_pins.oe) \subseteq word
        clk_rise == /\ vec.len > 0
                    /\ ~(OneShl(t_pins.clk) \subseteq vec.last)
                    /\ OneShl(t_pins.clk) \subseteq word
        lat_rise == /\ vec.len > 0
                    /\ ~(OneShl(t_pins.lat) \subseteq vec.last)
                    /\ OneShl(t_pins.lat) \subseteq word
        rises == vec.clk_rises + (IF clk_rise THEN 1 ELSE 0)
    IN  [len   |-> vec.len + 1,
         first |-> IF vec.len = 0 THEN word ELSE vec.first,
         prev  |-> vec.last,
         last  |-> word,
         tail  |-> IF Len(vec.tail) < TailLen THEN Append(vec.tail, word)
                   ELSE Append(Tail(vec.tail), word),
         on_run |-> IF oe_high THEN 0 ELSE vec.on_run + 1,
         runs  |-> IF oe_high /\ vec.on_run > 0
                   THEN vec.runs \cup {vec.on_run} ELSE vec.runs,
         clk_rises |-> IF lat_rise THEN 0 ELSE rises,
         clk_pulses |-> IF lat_rise THEN vec.clk_pulses \cup {rises}
                        ELSE vec.clk_pulses]

\* a plane loop that starts at the least significant plane
TStart_FromPlaneZero ==
    /\ t_pc = "start"
    /\ IF t_dimensions = << 64, 64 >>
       THEN /\ LET w == SetBit(SetBit(SetBit({}, t_pins.clk), t_pins.lat), t_pins.oe)
               IN  /\ current_gpio_state' = w
                   /\ gpio_states' = Push(gpio_states, w)
            /\ t_bit_plane' = 0
            /\ t_planes' = Append(t_planes, 0)
            /\ t_pc' = "col_data"
       ELSE /\ t_pc' = "panicked"
            /\ UNCHANGED << current_gpio_state, gpio_states, t_bit_plane,
                            t_planes >>
    /\ t_rep' = 0 /\ t_row' = 0 /\ t_col' = 0
    /\ UNCHANGED << strategy, lifeVars, tableVars, pinsVars, panelVars, mainVars,
                    t_pins, t_image,
                    t_dimensions, t_latched_row, t_scans >>

\* render_unoptimized up to the first push: assert!(image.dimensions() ==
\* (64, 64)) panics for any other image; then CLK, LAT and OE high, all else low
TStart ==
    /\ t_pc = "start"
    /\ IF t_dimensions = << 64, 64 >>
       THEN /\ LET w == SetBit(SetBit(SetBit({}, t_pins.clk), t_pins.lat), t_pins.oe)
               IN  /\ current_gpio_state' = w
                   /\ gpio_states' = Push(gpio_states, w)
            /\ t_bit_plane' = BIT_DEPTH - 1
            /\ t_planes' = Append(t_planes, BIT_DEPTH - 1)
            /\ t_pc' = "col_data"
       ELSE /\ t_pc' = "panicked"
            /\ UNCHANGED << current_gpio_state, gpio_states, t_bit_plane,
                            t_planes >>
    /\ t_rep' = 0 /\ t_row' = 0 /\ t_col' = 0
    /\ UNCHANGED << strategy, lifeVars, tableVars, pinsVars, panelVars, mainVars,
                    t_pins, t_image,
                    t_dimensions, t_latched_row, t_scans >>

\* one column: (at column 0, after clearing the RGB bits) set the six RGB bits
TColData ==
    /\ t_pc = "col_data"
    /\ LET base == IF t_col = 0 THEN ClearRgb(current_gpio_state, t_pins)
                   ELSE current_gpio_state
           w == ColumnData(base, t_pins, t_image, t_col, t_row, t_bit_plane)
       IN  /\ current_gpio_state' = w
           /\ gpio_states' = Push(gpio_states, w)
    /\ t_pc' = "clk_low"
    /\ UNCHANGED << strategy, lifeVars, tableVars, pinsVars, panelVars, mainVars,
                    t_pins, t_image,
                    t_dimensions, t_latched_row, t_bit_plane, t_rep,
                    t_row, t_col, t_scans, t_planes >>

\* a clock-low step that changes the word without pushing it
TClkLow_NoPush ==
    /\ t_pc = "clk_low"
    /\ current_gpio_state' = ClearBit(current_gpio_state, t_pins.clk)
    /\ t_pc' = "clk_high"
    /\ UNCHANGED << strategy, lifeVars, tableVars, pinsVars, panelVars, mainVars,
                    t_pins, t_image, t_dimensions, t_latched_row,
                    gpio_states, t_bit_plane, t_rep,
                    t_row, t_col, t_scans, t_planes >>

\* clock low
TClkLow ==
    /\ t_pc = "clk_low"
    /\ LET w == ClearBit(current_gpio_state, t_pins.clk)
       IN  /\ current_gpio_state' = w
           /\ gpio_states' = Push(gpio_states, w)
    /\ t_pc' = "clk_high"
    /\ UNCHANGED << strategy, lifeVars, tableVars, pinsVars, panelVars, mainVars,
                    t_pins, t_image,
                    t_dimensions, t_latched_row, t_bit_plane, t_rep,
                    t_row, t_col, t_scans, t_planes >>

\* a clock-high step that also clears the six RGB bits
TClkHigh_ClearsData ==
    /\ t_pc = "clk_high"
    /\ LET w == SetBit(ClearRgb(current_gpio_state, t_pins), t_pins.clk)
       IN  /\ current_gpio_state' = w
           /\ gpio_states' = Push(gpio_states, w)
    /\ t_col' = t_col + 1
    /\ t_pc' = IF t_col + 1 < MATRIX_WIDTH THEN "col_data" ELSE "oe_high"
    /\ UNCHANGED << strategy, lifeVars, tableVars, pinsVars, panelVars, mainVars,
                    t_pins, t_image,
                    t_dimensions, t_latched_row, t_bit_plane, t_rep,
                    t_row, t_scans, t_planes >>

\* clock high; next column, or the end of the column loop
TClkHigh ==
    /\ t_pc = "clk_high"
    /\ LET w == SetBit(current_gpio_state, t_pins.clk)
       IN  /\ current_gpio_state' = w
           /\ gpio_states' = Push(gpio_states, w)
    /\ t_col' = t_col + 1
    /\ t_pc' = IF t_col + 1 < MATRIX_WIDTH THEN "col_data" ELSE "oe_high"
    /\ UNCHANGED << strategy, lifeVars, tableVars, pinsVars, panelVars, mainVars,
                    t_pins, t_image,
                    t_dimensions, t_latched_row, t_bit_plane, t_rep,
                    t_row, t_scans, t_planes >>

\* a latch sequence that leaves the output enabled
TOeHigh_Skipped ==
    /\ t_pc = "oe_high"
    /\ gpio_states' = Push(gpio_states, current_gpio_state)
    /\ t_pc' = "lat_low"
    /\ UNCHANGED << strategy, lifeVars, tableVars, pinsVars, panelVars, mainVars,
                    t_pins, t_image, t_dimensions, t_latched_row,
                    current_gpio_state, t_bit_plane, t_rep,
                    t_row, t_col, t_scans, t_planes >>

\* disable output during the latch
TOeHigh ==
    /\ t_pc = "oe_high"
    /\ LET w == SetBit(current_gpio_state, t_pins.oe)
       IN  /\ current_gpio_state' = w
           /\ gpio_states' = Push(gpio_states, w)
    /\ t_pc' = "lat_low"
    /\ UNCHANGED << strategy, lifeVars, tableVars, pinsVars, panelVars, mainVars,
                    t_pins, t_image,
                    t_dimensions, t_latched_row, t_bit_plane, t_rep,
                    t_row, t_col, t_scans, t_planes >>

\* LAT low
TLatLow ==
    /\ t_pc = "lat_low"
    /\ LET w == ClearBit(current_gpio_state, t_pins.lat)
       IN  /\ current_gpio_state' = w
           /\ gpio_states' = Push(gpio_states, w)
    /\ t_pc' = "lat_high"
    /\ UNCHANGED << strategy, lifeVars, tableVars, pinsVars, panelVars, mainVars,
                    t_pins, t_image,
                    t_dimensions, t_latched_row, t_bit_plane, t_rep,
                    t_row, t_col, t_scans, t_planes >>

\* LAT high
TLatHigh ==
    /\ t_pc = "lat_high"
    /\ LET w == SetBit(current_gpio_state, t_pins.lat)
       IN  /\ current_gpio_state' = w
           /\ gpio_states' = Push(gpio_states, w)
    /\ t_latched_row' = t_row
    /\ t_pc' = "row_address"
    /\ UNCHANGED << strategy, lifeVars, tableVars, pinsVars, panelVars, mainVars,
                    t_pins, t_image,
                    t_dimensions, t_bit_plane, t_rep,
                    t_row, t_col, t_scans, t_planes >>

\* an address step that also enables the output
TRowAddress_EnablesOutput ==
    /\ t_pc = "row_address"
    /\ LET w == ClearBit(RowAddress(current_gpio_state, t_pins, t_row), t_pins.oe)
       IN  /\ current_gpio_state' = w
           /\ gpio_states' = Push(gpio_states, w)
    /\ t_pc' = "oe_low"
    /\ UNCHANGED << strategy, lifeVars, tableVars, pinsVars, panelVars, mainVars,
                    t_pins, t_image,
                    t_dimensions, t_latched_row, t_bit_plane, t_rep,
                    t_row, t_col, t_scans, t_planes >>

\* set the row address
TRowAddress ==
    /\ t_pc = "row_address"
    /\ LET w == RowAddress(current_gpio_state, t_pins, t_row)
       IN  /\ current_gpio_state' = w
           /\ gpio_states' = Push(gpio_states, w)
    /\ t_pc' = "oe_low"
    /\ UNCHANGED << strategy, lifeVars, tableVars, pinsVars, panelVars, mainVars,
                    t_pins, t_image,
                    t_dimensions, t_latched_row, t_bit_plane, t_rep,
                    t_row, t_col, t_scans, t_planes >>

\* a row end that pushes a word but leaves the output disabled
TOeLow_Skipped ==
    /\ t_pc = "oe_low"
    /\ gpio_states' = Push(gpio_states, current_gpio_state)
    /\ t_col' = 0
    /\ IF t_row + 1 < TIMELINE_ROWS
       THEN /\ t_row' = t_row + 1
            /\ t_pc' = "col_data"
            /\ UNCHANGED << t_rep, t_bit_plane, t_scans, t_planes >>
       ELSE /\ t_row' = 0
            /\ t_scans' = [t_scans EXCEPT ![t_bit_plane] = @ + 1]
            /\ IF t_rep + 1 < FramesToDisplay(t_bit_plane)
               THEN /\ t_rep' = t_rep + 1
                    /\ t_pc' = "col_data"
                    /\ UNCHANGED << t_bit_plane, t_planes >>
               ELSE /\ t_rep' = 0
                    /\ IF t_bit_plane > 0
                       THEN /\ t_bit_plane' = t_bit_plane - 1
                            /\ t_planes' = Append(t_planes, t_bit_plane - 1)
                            /\ t_pc' = "col_data"
                       ELSE /\ t_pc' = "final_oe"
                            /\ UNCHANGED << t_bit_plane, t_planes >>
    /\ UNCHANGED << strategy, lifeVars, tableVars, pinsVars, panelVars, mainVars,
                    t_pins, t_image, t_dimensions, t_latched_row,
                    current_gpio_state >>

\* enable output; then the next row, the next repeat of the plane, the next
\* lower plane, or the end of the three loops
TOeLow ==
    /\ t_pc = "oe_low"
    /\ LET w == ClearBit(current_gpio_state, t_pins.oe)
       IN  /\ current_gpio_state' = w
           /\ gpio_states' = Push(gpio_states, w)
    /\ t_col' = 0
    /\ IF t_row + 1 < TIMELINE_ROWS
       THEN /\ t_row' = t_row + 1
            /\ t_pc' = "col_data"
            /\ UNCHANGED << t_rep, t_bit_plane, t_scans, t_planes >>
       ELSE /\ t_row' = 0
            /\ t_scans' = [t_scans EXCEPT ![t_bit_plane] = @ + 1]
            /\ IF t_rep + 1 < FramesToDisplay(t_bit_plane)
               THEN /\ t_rep' = t_rep + 1
                    /\ t_pc' = "col_data"
                    /\ UNCHANGED << t_bit_plane, t_planes >>
               ELSE /\ t_rep' = 0
                    /\ IF t_bit_plane > 0
                       THEN /\ t_bit_plane' = t_bit_plane - 1
                            /\ t_planes' = Append(t_planes, t_bit_plane - 1)
                            /\ t_pc' = "col_data"
                       ELSE /\ t_pc' = "final_oe"
                            /\ UNCHANGED << t_bit_plane, t_planes >>
    /\ UNCHANGED << strategy, lifeVars, tableVars, pinsVars, panelVars, mainVars,
                    t_pins, t_image, t_dimensions, t_latched_row >>

\* a last step that pushes the word as the loops left it
TFinalOe_NoRaise ==
    /\ t_pc = "final_oe"
    /\ gpio_states' = Push(gpio_states, current_gpio_state)
    /\ t_pc' = "done"
    /\ UNCHANGED << strategy, lifeVars, tableVars, pinsVars, panelVars, mainVars,
                    t_pins, t_image, t_dimensions, t_latched_row,
                    current_gpio_state, t_bit_plane, t_rep,
                    t_row, t_col, t_scans, t_planes >>

\* after the loops: disable output, return gpio_states
TFinalOe ==
    /\ t_pc = "final_oe"
    /\ LET w == SetBit(current_gpio_state, t_pins.oe)
       IN  /\ current_gpio_state' = w
           /\ gpio_states' = Push(gpio_states, w)
    /\ t_pc' = "done"
    /\ UNCHANGED << strategy, lifeVars, tableVars, pinsVars, panelVars, mainVars,
                    t_pins, t_image,
                    t_dimensions, t_latched_row, t_bit_plane, t_rep,
                    t_row, t_col, t_scans, t_planes >>

RenderUnoptimizedNext ==
    \/ TStart \/ TColData \/ TClkLow \/ TClkHigh \/ TOeHigh
    \/ TLatLow \/ TLatHigh \/ TRowAddress \/ TOeLow \/ TFinalOe

\* the images render_unoptimized is called with: 64x64 images of every
\* content, and images of other dimensions
RenderInputs ==
    { [pins |-> MainPins, image |-> image, dims |-> << 64, 64 >>] : image \in Images }
    \cup { [pins |-> AltPins, image |-> image, dims |-> << 64, 64 >>] :
              image \in {"white", "ramp"} }
    \cup { [pins |-> MainPins, image |-> "white", dims |-> dims] :
              dims \in { << 32, 32 >>, << 64, 32 >>, << 128, 64 >> } }

\* render_unoptimized is entered with an image and an empty vector
InitTimeline(running) ==
    /\ t_pc = IF running THEN "start" ELSE "none"
    /\ \E input \in (IF running THEN RenderInputs
                      ELSE { [pins |-> MainPins, image |-> "black",
                              dims |-> << 64, 64 >>] }) :
          /\ t_pins = input.pins
          /\ t_image = input.image
          /\ t_dimensions = input.dims
    /\ current_gpio_state = {}
    /\ gpio_states = EmptyVec
    /\ t_bit_plane = 0 /\ t_rep = 0 /\ t_row = 0 /\ t_col = 0
    /\ t_scans = [p \in 0 .. (BIT_DEPTH - 1) |-> 0]
    /\ t_planes = << >>
    /\ t_latched_row = 0 - 1

\* -------------------------------------------------------------- main.rs
\* a table with the same entry for every value
GAMMA_TABLE_Flat == [i \in 1 .. 256 |-> 128]

GAMMA_TABLE == <<
    0, 0, 0, 0, 0, 0, 0, 0, 0, 0, 0, 0, 0, 0, 0, 0,
    0, 0, 0, 0, 0, 0, 1, 1, 1, 1, 1, 1, 1, 2, 2, 2,
    2, 2, 2, 3, 3, 3, 3, 3, 4, 4, 4, 4, 5, 5, 5, 5,
    6, 6, 6, 7, 7, 7, 8, 8, 8, 9, 9, 9, 10, 10, 11, 11,
    11, 12, 12, 13, 13, 13, 14, 14, 15, 15, 16, 16, 17, 17, 18, 18,
    19, 19, 20, 21, 21, 22, 22, 23, 23, 24, 25, 25, 26, 27, 27, 28,
    29, 29, 30, 31, 31, 32, 33, 34, 34, 35, 36, 37, 37, 38, 39, 40,
    40, 41, 42, 43, 44, 45, 46, 46, 47, 48, 49, 50, 51, 52, 53, 54,
    55, 56, 57, 58, 59, 60, 61, 62, 63, 64, 65, 66, 67, 68, 69, 70,
    71, 72, 73, 74, 76, 77, 78, 79, 80, 81, 83, 84, 85, 86, 88, 89,
    90, 91, 93, 94, 95, 96, 98, 99, 100, 102, 103, 104, 106, 107, 109, 110,
    111, 113, 114, 116, 117, 119, 120, 121, 123, 124, 126, 128, 129, 131, 132, 134,
    135, 137, 138, 140, 142, 143, 145, 146, 148, 150, 151, 153, 155, 157, 158, 160,
    162, 163, 165, 167, 169, 170, 172, 174, 176, 178, 179, 181, 183, 185, 187, 189,
    191, 193, 194, 196, 198, 200, 202, 204, 206, 208, 210, 212, 214, 216, 218, 220,
    222, 224, 227, 229, 231, 233, 235, 237, 239, 241, 244, 246, 248, 250, 252, 255 >>

\* gamma_correct
gamma_correct(value) == GAMMA_TABLE[value + 1]

\* Frame = [[[u8; 64]; 32]; 3]: planes, rows (the literal 32), columns
FRAME_PLANES == 3
FRAME_ROWS == 32
\* calls of draw_image_to_framebuffer the main thread makes
MaxDraws == 2

\* create_blank_frame
create_blank_frame ==
    [plane \in 0 .. (FRAME_PLANES - 1) |->
        [r \in 0 .. (FRAME_ROWS - 1) |-> [c \in 0 .. (MATRIX_WIDTH - 1) |-> 0]]]

\* byte | mask for a mask with a single 1 bit at position n
OrBit(byte, n) == IF Bit(byte, n) = 1 THEN byte ELSE byte + Pow2(n)

\* set_pixel, the body of its plane loop for one plane
SetPixelPlane(byte, is_bottom_half, bit_position, r, g, b) ==
    LET r_bit == Bit(r, bit_position)
        g_bit == Bit(g, bit_position)
        b_bit == Bit(b, bit_position)
    IN  IF ~is_bottom_half
        THEN LET b1 == IF r_bit > 0 THEN OrBit(byte, 7) ELSE byte
                 b2 == IF g_bit > 0 THEN OrBit(b1, 6) ELSE b1
             IN  IF b_bit > 0 THEN OrBit(b2, 4) ELSE b2
        ELSE LET b1 == IF r_bit > 0 THEN OrBit(byte, 3) ELSE byte
                 b2 == IF g_bit > 0 THEN OrBit(b1, 1) ELSE b1
             IN  IF b_bit > 0 THEN OrBit(b2, 0) ELSE b2

\* set_pixel(buffer, x, y, r, g, b) of main.rs
set_pixel(buffer, x, y, r, g, b) ==
    IF x >= 64 \/ y >= 64
    THEN buffer
    ELSE LET bit_depth == FRAME_PLANES
             frow == y % 32
             is_bottom_half == y >= 32
         IN  [plane \in 0 .. (bit_depth - 1) |->
                [buffer[plane] EXCEPT ![frow][x] =
                    SetPixelPlane(@, is_bottom_half, (plane + 8) - bit_depth, r, g, b)]]

\* RwLock::write returns when no guard is held
RwWriteAvailable == ~rwWriter /\ rwReaders = 0
\* a read lock that is handed out while the writer holds its guard
RwReadAvailable_IgnoresWriter == TRUE

\* RwLock::read returns when no write guard is held
RwReadAvailable == ~rwWriter

\* main calls draw_image_to_framebuffer(&image)
DrawCall ==
    /\ strategy = "main" /\ m_pc = "idle" /\ m_draws < MaxDraws
    /\ m_image' \in Images
    /\ m_draws' = m_draws + 1
    /\ m_pc' = "write_lock"
    /\ UNCHANGED << strategy, lifeVars, tableVars, pinsVars, panelVars, tlVars,
                    FRAME_BUFFER, rwWriter,
                    rwReaders, m_x, m_y, render_pc, committed >>

\* let mut frame_buffer = FRAME_BUFFER.write().unwrap()
DrawWriteLock ==
    /\ m_pc = "write_lock"
    /\ RwWriteAvailable
    /\ rwWriter' = TRUE
    /\ m_pc' = "blank"
    /\ UNCHANGED << strategy, lifeVars, tableVars, pinsVars, panelVars, tlVars,
                    FRAME_BUFFER, rwReaders,
                    m_image, m_x, m_y, m_draws, render_pc, committed >>

\* *frame_buffer = create_blank_frame()
DrawBlank ==
    /\ m_pc = "blank"
    /\ FRAME_BUFFER' = create_blank_frame
    /\ m_x' = 0 /\ m_y' = 0
    /\ m_pc' = "pixel"
    /\ UNCHANGED << strategy, lifeVars, tableVars, pinsVars, panelVars, tlVars,
                    rwWriter, rwReaders,
                    m_image, m_draws, render_pc, committed >>

\* for y in 0..64 { for x in 0..64 { gamma-correct the pixel and set_pixel it
\* with the arguments b, r, g } }
DrawPixel ==
    /\ m_pc = "pixel"
    /\ m_y < 64
    /\ LET pixel == GetPixel(m_image, m_x, m_y)
           r == gamma_correct(pixel[1])
           g == gamma_correct(pixel[2])
           b == gamma_correct(pixel[3])
       IN  FRAME_BUFFER' = set_pixel(FRAME_BUFFER, m_x, m_y, b, r, g)
    /\ IF m_x + 1 < MATRIX_WIDTH
       THEN m_x' = m_x + 1 /\ UNCHANGED m_y
       ELSE m_x' = 0 /\ m_y' = m_y + 1
    /\ UNCHANGED << strategy, lifeVars, tableVars, pinsVars, panelVars, tlVars,
                    rwWriter, rwReaders, m_pc,
                    m_image, m_draws, render_pc, committed >>

\* draw_image_to_framebuffer returns: the write guard is dropped
DrawUnlock ==
    /\ m_pc = "pixel"
    /\ m_y = 64
    /\ rwWriter' = FALSE
    /\ committed' = FRAME_BUFFER
    /\ m_pc' = "idle"
    /\ UNCHANGED << strategy, lifeVars, tableVars, pinsVars, panelVars, tlVars,
                    FRAME_BUFFER, rwReaders,
                    m_image, m_x, m_y, m_draws, render_pc >>

\* render thread: FRAME_BUFFER.read().unwrap()
RenderReadLock ==
    /\ render_pc = "read_lock"
    /\ RwReadAvailable
    /\ rwReaders' = rwReaders + 1
    /\ render_pc' = "render"
    /\ UNCHANGED << strategy, lifeVars, tableVars, pinsVars, panelVars, tlVars,
                    FRAME_BUFFER, rwWriter,
                    m_pc, m_image, m_x, m_y, m_draws, committed >>

\* render thread: h.render(&frame) returns, the read guard is dropped at the
\* end of the statement; after sleep(1 ms) the loop starts over
RenderUnlock ==
    /\ render_pc = "render"
    /\ rwReaders' = rwReaders - 1
    /\ render_pc' = "read_lock"
    /\ UNCHANGED << strategy, lifeVars, tableVars, pinsVars, panelVars, tlVars,
                    FRAME_BUFFER, rwWriter,
                    m_pc, m_image, m_x, m_y, m_draws, committed >>

DrawNext == DrawCall \/ DrawWriteLock \/ DrawBlank \/ DrawPixel \/ DrawUnlock

RenderThreadNext == RenderReadLock \/ RenderUnlock

\* the static FRAME_BUFFER and the render thread main() spawns
InitMain(running) ==
    /\ FRAME_BUFFER = create_blank_frame
    /\ rwWriter = FALSE
    /\ rwReaders = 0
    /\ m_pc = "idle"
    /\ m_image = "black"
    /\ m_x = 0 /\ m_y = 0
    /\ m_draws = 0
    /\ render_pc = IF running THEN "read_lock" ELSE "none"
    /\ committed = create_blank_frame

\* ------------------------------------------------------ hub75.rs, Pins::new
\* the 14 roles of Pins::new, in the order of its parameters
PinRoles == { "r1", "g1", "b1", "r2", "g2", "b2",
              "a", "b", "c", "d", "e", "clk", "lat", "oe" }

\* the pins listed in the array that the assert loop of Pins::new walks
AssertedRoles == { "r1", "g1", "b1", "r2", "g2", "b2",
                   "a", "b", "c", "d", "clk", "lat", "oe" }

\* GPIO numbers handed to Pins::new: those of main(), and assignments that
\* reuse a position or leave the 32-bit register word
PinCandidates ==
    { MainPins, AltPins,
      [MainPins EXCEPT !.r1 = 5, !.b = 18, !.lat = 5],
      [MainPins EXCEPT !.lat = 12],
      [MainPins EXCEPT !.e = 40],
      [MainPins EXCEPT !.e = 36],
      [MainPins EXCEPT !.r1 = 38],
      [MainPins EXCEPT !.oe = 33] }

\* for p in [r1.pin(), ..., oe.pin()] { assert!(p < 32); }
PinsNewAssert ==
    /\ pins_pc = "assert"
    /\ pins_pc' = IF \E role \in AssertedRoles : ~(pins_args[role] < 32)
                  THEN "panicked" ELSE "masks"
    /\ UNCHANGED << strategy, lifeVars, tableVars, panelVars, tlVars, mainVars,
                    pins_args, overflow_checks, pins_value, all_pin_mask >>

\* a shift 1 << pin of a u32 overflows when pin is not below 32
ShiftOverflows(pin) == pin >= 32

\* rgb1_mask, rgb2_mask, rgb_mask and addr_mask are computed with 1 << pin;
\* with overflow checks an overflowing shift panics, without them it wraps
PinsNewMasks ==
    /\ pins_pc = "masks"
    /\ pins_pc' = IF overflow_checks /\ \E role \in PinRoles \ {"clk", "lat", "oe"} :
                                           ShiftOverflows(pins_args[role])
                  THEN "panicked" ELSE "drivers"
    /\ UNCHANGED << strategy, lifeVars, tableVars, panelVars, tlVars, mainVars,
                    pins_args, overflow_checks, pins_value, all_pin_mask >>

\* rgb_mask = rgb1_mask | rgb2_mask
RgbMask(args) ==
    OneShl(args.r1) \cup OneShl(args.g1) \cup OneShl(args.b1)
        \cup OneShl(args.r2) \cup OneShl(args.g2) \cup OneShl(args.b2)

\* an address mask of the four lines A to D
AddrMask_NoE(args) ==
    OneShl(args.a) \cup OneShl(args.b) \cup OneShl(args.c) \cup OneShl(args.d)

\* addr_mask
AddrMask(args) ==
    OneShl(args.a) \cup OneShl(args.b) \cup OneShl(args.c)
        \cup OneShl(args.d) \cup OneShl(args.e)

\* the Pins struct built from the 14 pins: oe_pin, lat_pin and clk_pin are the
\* pin numbers as u8, the masks as computed, and the 14 PinDrivers
PinsOf(args) ==
    [oe_pin |-> args.oe % 256,
     lat_pin |-> args.lat % 256,
     clk_pin |-> args.clk % 256,
     rgb_mask |-> RgbMask(args),
     addr_mask |-> AddrMask(args),
     drivers |-> args]

\* the 14 PinDriver::output(pin).unwrap() calls succeed for these output pins;
\* the Pins value is built and returned
PinsNewDrivers ==
    /\ pins_pc = "drivers"
    /\ pins_value' = << PinsOf(pins_args) >>
    /\ pins_pc' = "returned"
    /\ UNCHANGED << strategy, lifeVars, tableVars, panelVars, tlVars, mainVars,
                    pins_args, overflow_checks, all_pin_mask >>

PinsNewNext == PinsNewAssert \/ PinsNewMasks \/ PinsNewDrivers

\* a mask that leaves out the clock pin
get_all_pin_mask_NoClk(pins) ==
    pins.rgb_mask \cup pins.addr_mask
        \cup OneShl(pins.oe_pin) \cup OneShl(pins.lat_pin)

\* Hub75::get_all_pin_mask
get_all_pin_mask(pins) ==
    pins.rgb_mask \cup pins.addr_mask
        \cup OneShl(pins.oe_pin) \cup OneShl(pins.lat_pin) \cup OneShl(pins.clk_pin)

\* Hub75 { pins } is built from the returned value and its get_all_pin_mask()
\* is called
GetAllPinMask ==
    /\ pins_pc = "returned"
    /\ all_pin_mask' = get_all_pin_mask(pins_value[1])
    /\ pins_pc' = "mask_read"
    /\ UNCHANGED << strategy, lifeVars, tableVars, panelVars, tlVars, mainVars,
                    pins_args, overflow_checks, pins_value >>

\* Pins::new is entered with 14 pins
InitPins(running) ==
    /\ pins_pc = IF running THEN "assert" ELSE "none"
    /\ pins_args \in (IF running THEN PinCandidates ELSE {MainPins})
    /\ overflow_checks \in (IF running THEN BOOLEAN ELSE {FALSE})
    /\ pins_value = << >>
    /\ all_pin_mask = {}

\* ---------------------------------- lightness_correct and gamma_correct
\* the values of a u8 argument
U8 == 0 .. 255

\* lightness_correct(value) is called and returns
LightnessCorrectCall ==
    /\ c_pc = "call" /\ c_fn = "lightness_correct"
    /\ c_inverted' = 65535 - PWM_TABLE[c_value + 1]
    /\ c_result' = lightness_correct(c_value)
    /\ c_pc' = "returned"
    /\ UNCHANGED << strategy, lifeVars, panelVars, tlVars, mainVars, pinsVars,
                    c_fn, c_value >>

\* gamma_correct(value) is called and returns
GammaCorrectCall ==
    /\ c_pc = "call" /\ c_fn = "gamma_correct"
    /\ c_result' = gamma_correct(c_value)
    /\ c_pc' = "returned"
    /\ UNCHANGED << strategy, lifeVars, panelVars, tlVars, mainVars, pinsVars,
                    c_fn, c_value, c_inverted >>

\* one of the two functions is entered with a u8
InitTables(running) ==
    /\ c_pc = IF running THEN "call" ELSE "none"
    /\ c_fn \in (IF running THEN {"lightness_correct", "gamma_correct"}
                 ELSE {"lightness_correct"})
    /\ c_value \in (IF running THEN U8 ELSE {0})
    /\ c_inverted = 0
    /\ c_result = 0

\* ------------------------------- panel.rs, the lifetime of the MatrixPanels
\* MatrixPanels the program constructs at most
MaxPanels == 2

\* MatrixPanel::new(): initialized false, refresh_running false
MatrixPanelNew == [initialized |-> FALSE, refresh_running |-> FALSE]

\* the calling thread may start another call
CallerIdle == strategy = "panels" /\ caller_pc = "idle" /\ calls < MaxOps

\* initialize_panel: let mut panel = MatrixPanel::new(); panel.begin()
PanelsInitializeCall ==
    /\ CallerIdle /\ Len(panels) < MaxPanels
    /\ panels' = Append(panels, MatrixPanelNew)
    /\ caller_panel' = Len(panels) + 1
    /\ caller_op' = "initialize_panel"
    /\ caller_pc' = "begin_check"
    /\ calls' = calls + 1
    /\ UNCHANGED << strategy, panelVars, tlVars, mainVars, pinsVars, tableVars,
                    instance, threads, oe_level >>

\* get_panel() followed by MatrixPanel::begin on the stored panel
PanelsBeginCall ==
    /\ CallerIdle /\ instance # 0
    /\ caller_panel' = instance
    /\ caller_op' = "begin"
    /\ caller_pc' = "begin_check"
    /\ calls' = calls + 1
    /\ UNCHANGED << strategy, panelVars, tlVars, mainVars, pinsVars, tableVars,
                    panels, instance, threads, oe_level >>

\* MatrixPanel::begin: if self.initialized { return Ok(true) }
PanelsBeginCheck ==
    /\ caller_pc = "begin_check"
    /\ caller_pc' = IF ~panels[caller_panel].initialized THEN "init_pins"
                    ELSE IF caller_op = "initialize_panel" THEN "store"
                    ELSE "idle"
    /\ UNCHANGED << strategy, panelVars, tlVars, mainVars, pinsVars, tableVars,
                    panels, instance, threads, oe_level, caller_op,
                    caller_panel, calls >>

\* begin: setup_gpio_pins and init_pins_state, which writes OE high
PanelsInitPins ==
    /\ caller_pc = "init_pins"
    /\ oe_level' = 1
    /\ caller_pc' = "start_refresh"
    /\ UNCHANGED << strategy, panelVars, tlVars, mainVars, pinsVars, tableVars,
                    panels, instance, threads, caller_op, caller_panel, calls >>

\* begin: self.initialized = true; start_refresh_thread: set the panel's
\* running flag and spawn a thread that runs refresh_loop on clones of the
\* panel's flag, framebuffer and pins
PanelsStartRefreshThread ==
    /\ caller_pc = "start_refresh"
    /\ panels' = [panels EXCEPT ![caller_panel] =
                     [initialized |-> TRUE, refresh_running |-> TRUE]]
    /\ threads' = Append(threads, [panel |-> caller_panel, rpc |-> "while_check",
                                   bit_plane |-> 0, row |-> 0])
    /\ caller_pc' = IF caller_op = "initialize_panel" THEN "store" ELSE "idle"
    /\ UNCHANGED << strategy, panelVars, tlVars, mainVars, pinsVars, tableVars,
                    instance, oe_level, caller_op, caller_panel, calls >>

\* initialize_panel: PANEL_INSTANCE = Some(panel). The assignment drops the
\* value the global held; Drop for MatrixPanel calls stop() on an initialized
\* panel, which clears that panel's running flag
PanelsStore ==
    /\ caller_pc = "store"
    /\ instance' = caller_panel
    /\ panels' = IF instance # 0 /\ panels[instance].initialized
                 THEN [panels EXCEPT ![instance].refresh_running = FALSE]
                 ELSE panels
    /\ caller_pc' = "idle"
    /\ UNCHANGED << strategy, panelVars, tlVars, mainVars, pinsVars, tableVars,
                    threads, oe_level, caller_op, caller_panel, calls >>

\* get_panel() followed by MatrixPanel::stop on the stored panel
PanelsStop ==
    /\ CallerIdle /\ instance # 0
    /\ panels' = [panels EXCEPT ![instance].refresh_running = FALSE]
    /\ caller_panel' = instance
    /\ caller_op' = "stop"
    /\ calls' = calls + 1
    /\ UNCHANGED << strategy, panelVars, tlVars, mainVars, pinsVars, tableVars,
                    instance, threads, oe_level, caller_pc >>

\* the running flag thread t reads: the clone of its panel's refresh_running
FlagOf(t) == panels[threads[t].panel].refresh_running

\* thread t: while *refresh_running.lock().unwrap() { for bit_plane in 0..
LoopWhileCheck(t) ==
    /\ threads[t].rpc = "while_check"
    /\ threads' = [threads EXCEPT ![t] =
                      IF FlagOf(t)
                      THEN [@ EXCEPT !.rpc = "plane_check", !.bit_plane = 0]
                      ELSE [@ EXCEPT !.rpc = "final_oe"]]
    /\ UNCHANGED << strategy, panelVars, tlVars, mainVars, pinsVars, tableVars,
                    panels, instance, oe_level, caller_pc, caller_op,
                    caller_panel, calls >>

\* thread t: for bit_plane in 0..COLOR_DEPTH_BITS { if !running { break }
LoopPlaneCheck(t) ==
    /\ threads[t].rpc = "plane_check"
    /\ threads' = [threads EXCEPT ![t] =
                      IF @.bit_plane < COLOR_DEPTH_BITS /\ FlagOf(t)
                      THEN [@ EXCEPT !.rpc = "row_check", !.row = 0]
                      ELSE [@ EXCEPT !.rpc = "while_check"]]
    /\ UNCHANGED << strategy, panelVars, tlVars, mainVars, pinsVars, tableVars,
                    panels, instance, oe_level, caller_pc, caller_op,
                    caller_panel, calls >>

\* thread t: for row in 0..SCAN_ROWS { if !running { break }
LoopRowCheck(t) ==
    /\ threads[t].rpc = "row_check"
    /\ threads' = [threads EXCEPT ![t] =
                      IF @.row < SCAN_ROWS /\ FlagOf(t)
                      THEN [@ EXCEPT !.rpc = "row_scan"]
                      ELSE [@ EXCEPT !.rpc = "plane_check",
                                     !.bit_plane = @ + 1]]
    /\ UNCHANGED << strategy, panelVars, tlVars, mainVars, pinsVars, tableVars,
                    panels, instance, oe_level, caller_pc, caller_op,
                    caller_panel, calls >>

\* thread t: OE high, then set_row_address, shift_row_data and latch_data
\* write the address, RGB, CLK and LAT pins
LoopRowScan(t) ==
    /\ threads[t].rpc = "row_scan"
    /\ oe_level' = 1
    /\ threads' = [threads EXCEPT ![t].rpc = "oe_low"]
    /\ UNCHANGED << strategy, panelVars, tlVars, mainVars, pinsVars, tableVars,
                    panels, instance, caller_pc, caller_op, caller_panel,
                    calls >>

\* thread t: OE low, the display time of the plane, the next row
LoopOeLow(t) ==
    /\ threads[t].rpc = "oe_low"
    /\ oe_level' = 0
    /\ threads' = [threads EXCEPT ![t] =
                      [@ EXCEPT !.rpc = "row_check", !.row = @ + 1]]
    /\ UNCHANGED << strategy, panelVars, tlVars, mainVars, pinsVars, tableVars,
                    panels, instance, caller_pc, caller_op, caller_panel,
                    calls >>

\* thread t: after the while loop OE high, the thread ends
LoopFinalOe(t) ==
    /\ threads[t].rpc = "final_oe"
    /\ oe_level' = 1
    /\ threads' = [threads EXCEPT ![t].rpc = "done"]
    /\ UNCHANGED << strategy, panelVars, tlVars, mainVars, pinsVars, tableVars,
                    panels, instance, caller_pc, caller_op, caller_panel,
                    calls >>

PanelsCallerNext ==
    \/ PanelsInitializeCall \/ PanelsBeginCall \/ PanelsBeginCheck
    \/ PanelsInitPins \/ PanelsStartRefreshThread \/ PanelsStore
    \/ PanelsStop

PanelsLoopNext ==
    \E t \in 1 .. Len(threads) :
        \/ LoopWhileCheck(t) \/ LoopPlaneCheck(t) \/ LoopRowCheck(t)
        \/ LoopRowScan(t) \/ LoopOeLow(t) \/ LoopFinalOe(t)

\* no panel has been constructed, PANEL_INSTANCE is None, no thread runs
InitPanels(running) ==
    /\ panels = << >>
    /\ instance = 0
    /\ threads = << >>
    /\ oe_level \in (IF running THEN {0, 1} ELSE {0})
    /\ caller_pc = IF running THEN "idle" ELSE "none"
    /\ caller_op = "none"
    /\ caller_panel = 0
    /\ calls = 0

AppNext ==
    \/ InitializePanelCall \/ BeginCall \/ BeginCheck \/ InitPinsOe
    \/ InitPinsRest \/ StartRefreshThread
    \/ FillScreenCall \/ FillLock \/ FillWrite \/ FillUnlock
    \/ SetPixelCall \/ DisplayTestPatternCall
    \/ SetPixelLock \/ SetPixelWrite \/ SetPixelUnlock
    \/ Stop \/ DropPanel

\* steps that finish an operation the application thread has begun
AppContinue ==
    \/ BeginCheck \/ InitPinsOe \/ InitPinsRest \/ StartRefreshThread
    \/ FillLock \/ FillWrite \/ FillUnlock
    \/ SetPixelLock \/ SetPixelWrite \/ SetPixelUnlock

RefreshNext ==
    \/ RefreshWhileCheck \/ RefreshPlaneCheck \/ RefreshRowCheck
    \/ RefreshOeHigh \/ RefreshSetRowAddress \/ RefreshLockFb
    \/ RefreshShiftData \/ RefreshClkHigh \/ RefreshClkLow
    \/ RefreshUnlockFb \/ RefreshLatHigh \/ RefreshLatLow
    \/ RefreshOeLow \/ RefreshDelay \/ RefreshFinalOe

\* the levels the pins may have before init_pins_state runs
PowerUpLevels == { [p \in PanelGpios |-> 0], [p \in PanelGpios |-> 1] }

\* MatrixPanel::new() and a thread that has not been spawned
InitPanel ==
    /\ initialized = FALSE
    /\ refresh_running = FALSE
    /\ framebuffer = FrameBufferNew
    /\ fbHolders = {}
    /\ PANEL_INSTANCE = FALSE
    /\ gpio \in PowerUpLevels
    /\ rpc = "none"
    /\ bit_plane = 0 /\ row = 0 /\ col = 0
    /\ display_time_us = 0
    /\ apc = "idle"
    /\ aop = NoOp
    /\ opsDone = 0
    /\ preImage = FrameBufferNew
    /\ postImage = FrameBufferNew
    /\ stopReturned = FALSE
    /\ planesVisited = << >>
    /\ latchedAfterStop = 0
    /\ latched_row = 0 - 1

\* the panel of a build that does not use panel.rs is never brought up
InitPanelUnused ==
    InitPanel /\ gpio = [p \in PanelGpios |-> 0]

Init ==
    /\ strategy \in {"direct", "timeline", "main", "pins", "tables", "panels"}
    /\ IF strategy = "direct" THEN InitPanel ELSE InitPanelUnused
    /\ InitTimeline(strategy = "timeline")
    /\ InitMain(strategy = "main")
    /\ InitPins(strategy = "pins")
    /\ InitTables(strategy = "tables")
    /\ InitPanels(strategy = "panels")

Next ==
    \/ AppNext \/ RefreshNext
    \/ RenderUnoptimizedNext
    \/ DrawNext \/ RenderThreadNext
    \/ PinsNewNext \/ GetAllPinMask
    \/ LightnessCorrectCall \/ GammaCorrectCall
    \/ PanelsCallerNext \/ PanelsLoopNext

Spec == Init /\ [][Next]_vars

\* the scheduler runs the refresh thread and lets a started operation finish
FairSpec ==
    /\ Spec
    /\ WF_vars(RefreshNext) /\ WF_vars(AppContinue)
    /\ WF_vars(RenderUnoptimizedNext)
    /\ WF_vars(DrawNext) /\ WF_vars(RenderThreadNext)
    /\ WF_vars(PinsNewNext) /\ WF_vars(GetAllPinMask)
    /\ WF_vars(LightnessCorrectCall) /\ WF_vars(GammaCorrectCall)

\* fair scheduling with locks that wake their waiters: a thread blocked in
\* Mutex::lock or RwLock::write gets the lock if it is released again and again
LockFairSpec ==
    /\ FairSpec
    /\ SF_vars(FillLock) /\ SF_vars(SetPixelLock)
    /\ SF_vars(DrawWriteLock)

\* ------------------------------------------------------------- properties
\* the refresh thread holds the framebuffer mutex (it is inside shift_row_data)
RefreshReadsFrame == "refresh" \in fbHolders

\* C1: every framebuffer state from which refresh_loop shifts out a row is the
\* complete image before the current update or the complete image after it,
\* never one holding only part of the update's pixels.
C1_NoTornFrame ==
    RefreshReadsFrame => (framebuffer = preImage \/ framebuffer = postImage)

\* C3: while one shift_row_data call runs (first to last column of a row-scan
\* step) no fill_screen or set_pixel write changes the framebuffer.
C3_RowReadsOneFrame ==
    [][(RefreshReadsFrame /\ RefreshReadsFrame') => framebuffer' = framebuffer]_vars

\* C3 witness: a row has been shifted out completely, lock still held, while a
\* writer that already changed the image is waiting to write again.
C3_Witness ==
    /\ rpc = "shift_data" /\ col = MATRIX_WIDTH /\ RefreshReadsFrame
    /\ apc = "set_pixel_lock" /\ framebuffer # FrameBufferNew

\* C4: once stop() has cleared the flag of a running refresh thread, the thread
\* eventually ends with OE at level 1, and after it has ended OE stays at 1.
C4_StopLeadsToBlankExit ==
    /\ (rpc # "none" /\ ~refresh_running) ~> (rpc = "done" /\ gpio[PinConfig.oe] = 1)
    /\ [][rpc = "done" => (rpc' = "done" /\ gpio'[PinConfig.oe] = 1)]_vars

\* C4 witness: the thread has ended after a stop() issued while output was on
C4_Witness ==
    rpc = "done" /\ stopReturned /\ gpio[PinConfig.oe] = 1 /\ display_time_us > 0

\* C5: when stop() (called directly or through Drop) has returned, the refresh
\* thread has already written OE = 1 and makes no further pin writes.
C5_StopReturnsBlanked ==
    stopReturned => (rpc = "done" /\ gpio[PinConfig.oe] = 1)

\* C6: the refresh thread is never waiting for the framebuffer lock while a
\* writer holds it.
C6_RefreshNeverWaits ==
    ~(rpc = "lock_fb" /\ "app" \in fbHolders)

\* C8: in direct mode every write to an address, RGB, CLK or LAT line is made
\* with OE at 1, and OE falls only at the end of a row step, after the latch
\* pulse has completed.
C8_WritesUnderOeHigh ==
    /\ [](rpc \in {"set_row_address", "shift_data", "clk_high", "clk_low",
                   "unlock_fb", "lat_high", "lat_low", "oe_low"}
            => gpio[PinConfig.oe] = 1)
    /\ [](apc \in {"init_pins_rest", "start_refresh"} => gpio[PinConfig.oe] = 1)
    /\ [][ /\ \A p \in PanelGpios \ {PinConfig.oe} :
                 gpio'[p] # gpio[p] => (gpio[PinConfig.oe] = 1 /\ gpio'[PinConfig.oe] = 1)
           /\ (gpio[PinConfig.oe] = 1 /\ gpio'[PinConfig.oe] = 0)
                 => (rpc = "oe_low" /\ gpio[PinConfig.lat] = 0 /\ gpio[PinConfig.clk] = 0)
         ]_vars

\* C8 witness: a row with a changed address and non-black data has been
\* latched and output has just been enabled.
C8_Witness ==
    /\ rpc = "delay" /\ gpio[PinConfig.oe] = 0 /\ gpio[PinConfig.a] = 1
    /\ gpio[PinConfig.r1] = 1


\* the render thread holds a read guard: h.render is reading FRAME_BUFFER
RenderReadsFrame == render_pc = "render"

\* C2: a render call reading FRAME_BUFFER sees the complete frame of the last
\* finished draw (the previous frame, or the new one once the draw is over),
\* never the blanked or partly drawn buffer.
C2_RenderSeesCompleteFrame ==
    RenderReadsFrame => (FRAME_BUFFER = committed /\ m_pc \in {"idle", "write_lock"})

\* C2 witness: the render thread reads a non-blank frame while the writer
\* waits to draw the next image.
C2_Witness ==
    /\ RenderReadsFrame /\ m_pc = "write_lock" /\ m_draws = 2
    /\ FRAME_BUFFER # create_blank_frame

\* bit pin of a register word is 1
HasBit(word, pin) == (pin % 32) \in word

\* two words differ in one of the given pins
Differ(w1, w2, pinset) == \E pin \in pinset : HasBit(w1, pin) # HasBit(w2, pin)

AddrPins(pins) == { pins.a, pins.b, pins.c, pins.d, pins.e }

\* the pairs of consecutive bus words known in this state: the last two words
\* pushed and, for the cyclic replay, the last word followed by the first
ConsecutiveWords ==
    (IF gpio_states.len >= 2
       THEN { << gpio_states.prev, gpio_states.last >> } ELSE {})
    \cup
    (IF t_pc = "done"
       THEN { << gpio_states.last, gpio_states.first >> } ELSE {})

\* C7 as claimed: whenever CLK, LAT or an address bit differs between two
\* consecutive bus words of the cyclically replayed timeline, OE is high in both.
C7_OeBracketsClkLatAddr ==
    \A pair \in ConsecutiveWords :
        Differ(pair[1], pair[2], AddrPins(t_pins) \cup {t_pins.clk, t_pins.lat})
            => (HasBit(pair[1], t_pins.oe) /\ HasBit(pair[2], t_pins.oe))

\* C7 amended: whenever LAT or an address bit differs between two consecutive
\* bus words of the cyclically replayed timeline, OE is high in both.
C7_OeBracketsLatAddr ==
    \A pair \in ConsecutiveWords :
        Differ(pair[1], pair[2], AddrPins(t_pins) \cup {t_pins.lat})
            => (HasBit(pair[1], t_pins.oe) /\ HasBit(pair[2], t_pins.oe))

\* C7 witness: the address word of a row whose address differs from the row
\* before it has just been pushed
C7_Witness ==
    /\ t_pc = "oe_low" /\ t_row = 16 /\ t_bit_plane = 2
    /\ Differ(gpio_states.prev, gpio_states.last, AddrPins(t_pins))

\* sum of the scans counted for the planes p .. BIT_DEPTH - 1
RECURSIVE ScansFrom(_)
ScansFrom(p) == IF p >= BIT_DEPTH THEN 0 ELSE t_scans[p] + ScansFrom(p + 1)

\* bus words render_unoptimized pushes for one scan row
WordsPerRow == 3 * MATRIX_WIDTH + 5

\* C9: BCM weight law. render_unoptimized emits plane p as exactly 2^p
\* consecutive full 32-row scans, and the output-enabled delay refresh_loop
\* computes for plane p is exactly 2^p times the delay of plane 0, not wrapped.
C9_BcmWeightLaw ==
    /\ t_pc \notin {"none", "start", "panicked"} =>
         /\ \A p \in 0 .. (BIT_DEPTH - 1) :
              IF p > t_bit_plane THEN t_scans[p] = Pow2(p)
              ELSE IF p < t_bit_plane THEN t_scans[p] = 0
              ELSE IF t_pc \in {"final_oe", "done"} THEN t_scans[p] = Pow2(p)
              ELSE t_scans[p] = t_rep /\ t_rep < Pow2(p)
         /\ (t_pc = "col_data" /\ t_col = 0) =>
              gpio_states.len = 1 + (ScansFrom(0) * TIMELINE_ROWS + t_row) * WordsPerRow
    /\ (rpc = "row_check" /\ row >= 1) =>
         /\ display_time_us = Pow2(bit_plane) * DisplayTimeUs(0)
         /\ display_time_us > 0

\* C9 witness: the most significant plane has had its 2^(D-1) scans and the
\* program moves to the next-lower plane, for the all-white image
C9_Witness ==
    /\ t_image = "white" /\ t_pc = "col_data" /\ t_col = 0 /\ t_row = 0
    /\ t_rep = 0 /\ t_bit_plane = BIT_DEPTH - 2
    /\ t_scans[BIT_DEPTH - 1] = Pow2(BIT_DEPTH - 1)

\* the planes of seq are D-1, D-2, ... in this order
DescendingFrom(seq, D) == \A i \in 1 .. Len(seq) : seq[i] = D - i
\* the planes of seq are 0, 1, 2, ... in this order
AscendingFromZero(seq) == \A i \in 1 .. Len(seq) : seq[i] = i - 1

\* C10 as claimed: within a refresh cycle both render_unoptimized and
\* refresh_loop visit the bit planes in descending order from D-1 to 0.
C10_BothDescending ==
    /\ DescendingFrom(t_planes, BIT_DEPTH)
    /\ DescendingFrom(planesVisited, COLOR_DEPTH_BITS)

\* C10 amended: render_unoptimized visits the planes in descending order from
\* BIT_DEPTH-1 to 0; refresh_loop visits them in ascending order from 0 to 7.
C10_TimelineDescendingDirectAscending ==
    /\ DescendingFrom(t_planes, BIT_DEPTH)
    /\ Len(t_planes) <= BIT_DEPTH
    /\ t_pc = "done" => Len(t_planes) = BIT_DEPTH
    /\ AscendingFromZero(planesVisited)
    /\ Len(planesVisited) <= COLOR_DEPTH_BITS
    /\ (rpc = "plane_check" /\ bit_plane = COLOR_DEPTH_BITS /\ refresh_running)
          => Len(planesVisited) = COLOR_DEPTH_BITS

\* C10 witness: refresh_loop is in the last plane of a cycle, all eight entered
C10_Witness ==
    /\ rpc = "delay" /\ Len(planesVisited) = COLOR_DEPTH_BITS
    /\ bit_plane = COLOR_DEPTH_BITS - 1


\* a row block has just ended: its output-enable word is the last word pushed
RowBlockEnded ==
    /\ gpio_states.len > 1
    /\ (t_pc = "col_data" /\ t_col = 0) \/ t_pc = "final_oe"

\* the scan row of the row block that has just ended
EndedRow == (t_row + (TIMELINE_ROWS - 1)) % TIMELINE_ROWS

\* two words are equal outside the given pins
OnlyDiffer(w1, w2, pinset) ==
    \A n \in 0 .. 31 : (n \in w1) # (n \in w2) => \E pin \in pinset : n = pin % 32

BitOf(word, pin) == IF HasBit(word, pin) THEN 1 ELSE 0

\* the number the five address bits of a word encode, A = bit 0 ... E = bit 4
AddressOf(word, pins) ==
    BitOf(word, pins.a) + 2 * BitOf(word, pins.b) + 4 * BitOf(word, pins.c)
        + 8 * BitOf(word, pins.d) + 16 * BitOf(word, pins.e)

\* C11: every row block of the timeline ends, after its column steps (three
\* words per column), with five words in this order, each differing from the
\* word before it only in the named signal: OE raised; LAT lowered; LAT
\* raised; the address bits A..E set to the binary value of the row (A = bit
\* 0 ... E = bit 4); OE lowered.
C11_RowBlockTail ==
    RowBlockEnded =>
        LET w == gpio_states.tail
        IN  /\ Len(w) = TailLen
            /\ (gpio_states.len - 1) % WordsPerRow = 0
            /\ HasBit(w[1], t_pins.clk)
            /\ OnlyDiffer(w[1], w[2], {t_pins.oe}) /\ HasBit(w[2], t_pins.oe)
            /\ OnlyDiffer(w[2], w[3], {t_pins.lat}) /\ ~HasBit(w[3], t_pins.lat)
            /\ HasBit(w[2], t_pins.lat)
            /\ OnlyDiffer(w[3], w[4], {t_pins.lat}) /\ HasBit(w[4], t_pins.lat)
            /\ OnlyDiffer(w[4], w[5], AddrPins(t_pins))
            /\ AddressOf(w[5], t_pins) = EndedRow
            /\ OnlyDiffer(w[5], w[6], {t_pins.oe}) /\ ~HasBit(w[6], t_pins.oe)

\* C11 witness: row 21 of a later plane has ended; OE was low before its latch
\* window and its address differs from the one of row 20
C11_Witness ==
    /\ RowBlockEnded /\ EndedRow = 21 /\ t_bit_plane = 1 /\ t_image = "ramp"
    /\ ~HasBit(gpio_states.tail[1], t_pins.oe)
    /\ AddressOf(gpio_states.tail[4], t_pins) = 20

\* the last word pushed belongs to a column step (data-set, clock-low or
\* clock-high word)
ColumnWordState ==
    \/ t_pc \in {"clk_low", "clk_high"}
    \/ t_pc \in {"col_data", "oe_high"} /\ t_col >= 1

\* the column of that step
ColumnOfWord == IF t_pc \in {"clk_low", "clk_high"} THEN t_col ELSE t_col - 1

\* bit (8 - D + p) of the lightness-corrected channel k of a pixel
ChannelBit(pixel, k, p) == Bit(lightness_correct(pixel[k]), (8 - BIT_DEPTH) + p)

UpperTriple(word, pins) ==
    << BitOf(word, pins.r1), BitOf(word, pins.g1), BitOf(word, pins.b1) >>
LowerTriple(word, pins) ==
    << BitOf(word, pins.r2), BitOf(word, pins.g2), BitOf(word, pins.b2) >>

\* the three line values render_unoptimized derives from one pixel at plane p:
\* the R line from channel [2], the G line from channel [0], the B line from [1]
TripleOfPixel(pixel, p) ==
    << ChannelBit(pixel, 3, p), ChannelBit(pixel, 1, p), ChannelBit(pixel, 2, p) >>

\* C12: in the bus words of column c of scan row r at plane p the upper RGB
\* triple is a function of pixel (c, r) alone and the lower triple a function
\* of pixel (c, r + 32) alone, each line being bit (8 - D + p) of a
\* lightness-corrected channel value of that pixel.
C12_TriplesFromOwnPixels ==
    ColumnWordState =>
        /\ UpperTriple(gpio_states.last, t_pins)
             = TripleOfPixel(GetPixel(t_image, ColumnOfWord, t_row), t_bit_plane)
        /\ LowerTriple(gpio_states.last, t_pins)
             = TripleOfPixel(GetPixel(t_image, ColumnOfWord, t_row + 32), t_bit_plane)

\* C12 witness: a clock-high word of the second column, in a frame whose
\* pixels all differ, where the upper and the lower triple are unequal and
\* the neighbouring column's pixel would give another upper triple
C12_Witness ==
    /\ t_image = "ramp" /\ t_pc = "oe_high" /\ MATRIX_WIDTH >= 2
    /\ t_col = MATRIX_WIDTH
    /\ UpperTriple(gpio_states.last, t_pins) # LowerTriple(gpio_states.last, t_pins)
    /\ TripleOfPixel(GetPixel(t_image, ColumnOfWord - 1, t_row), t_bit_plane)
         # UpperTriple(gpio_states.last, t_pins)

\* a draw of the image has completed and FRAME_BUFFER holds its result
DrawCompleted(image) ==
    m_pc = "idle" /\ m_draws >= 1 /\ m_image = image

\* the bits of a bit-plane table byte: R1 0x80, G1 0x40, B1 0x10, R2 0x08,
\* G2 0x02, B2 0x01
R1_R2_ONLY == 128 + 8

\* C13: for an all-red frame (255,0,0), every column word of the most
\* significant plane of the timeline has R1 and R2 high and G1, B1, G2, B2
\* low, and the table draw_image_to_framebuffer fills has the R1 and R2 bits
\* and no other bit in every byte.
C13_RedDrivesRedLines ==
    /\ (t_image = "red" /\ t_bit_plane = BIT_DEPTH - 1 /\ ColumnWordState) =>
          /\ UpperTriple(gpio_states.last, t_pins) = << 1, 0, 0 >>
          /\ LowerTriple(gpio_states.last, t_pins) = << 1, 0, 0 >>
    /\ DrawCompleted("red") =>
          \A plane \in 0 .. (FRAME_PLANES - 1), r \in 0 .. (FRAME_ROWS - 1),
             c \in 0 .. (MATRIX_WIDTH - 1) :
                FRAME_BUFFER[plane][r][c] = R1_R2_ONLY

\* the six RGB pins
RgbPins(pins) == { pins.r1, pins.g1, pins.b1, pins.r2, pins.g2, pins.b2 }

\* C14: for an all-black frame every bus word pushed to the timeline has the
\* six RGB data bits R1, G1, B1, R2, G2, B2 equal to 0.
C14_BlackHasNoRgbBit ==
    (t_image = "black" /\ gpio_states.len >= 1) =>
        /\ \A pin \in RgbPins(t_pins) : ~HasBit(gpio_states.last, pin)
        /\ \A i \in 1 .. Len(gpio_states.tail) :
              \A pin \in RgbPins(t_pins) : ~HasBit(gpio_states.tail[i], pin)

\* C14 witness: the black frame has been encoded completely
C14_Witness ==
    /\ t_image = "black" /\ t_pc = "done"
    /\ gpio_states.len > WordsPerRow * TIMELINE_ROWS

\* no row has been enabled yet: the program is in the column steps of the
\* first row of the first scan
BeforeFirstEnable ==
    /\ t_bit_plane = BIT_DEPTH - 1 /\ t_rep = 0 /\ t_row = 0
    /\ t_pc \in {"col_data", "clk_low", "clk_high", "oe_high"}

\* the last word pushed lies in a row's latch/address window: it is the
\* disable-output, LAT-low, LAT-high or address-set word
InLatchWindow == t_pc \in {"lat_low", "lat_high", "row_address", "oe_low"}

\* C15 as claimed: for an all-black frame OE is high in a bus word only if the
\* word lies in a row's latch/address window; in every other word OE is low.
C15_OeHighOnlyInLatchWindow ==
    (t_image = "black" /\ gpio_states.len >= 1) =>
        (HasBit(gpio_states.last, t_pins.oe) => InLatchWindow)

\* C15 amended: for an all-black frame OE is high in a bus word exactly if the
\* word lies in a row's latch/address window, or is the initial word or a
\* column word of the very first row (before the first enable), or is the
\* final word of the timeline; in every other word OE is low.
C15_OeHighInWindowStartAndEnd ==
    (t_image = "black" /\ gpio_states.len >= 1) =>
        (HasBit(gpio_states.last, t_pins.oe)
            <=> (InLatchWindow \/ BeforeFirstEnable \/ t_pc = "done"))

\* C15 witness: a column word of a later row of the black frame, OE low,
\* after that row's predecessor went through its latch window with OE high
C15_Witness ==
    /\ t_image = "black" /\ t_pc = "clk_high" /\ t_row = 7 /\ t_bit_plane = 0
    /\ ~HasBit(gpio_states.last, t_pins.oe)
    /\ gpio_states.len > WordsPerRow

\* bus words of a timeline with s latch/address words per row, as claimed
ClaimedLength(s) ==
    (Pow2(BIT_DEPTH) - 1) * TIMELINE_ROWS * (1 + MATRIX_WIDTH * 3 + s)

\* C16 as claimed: the length of the returned timeline is the sum over the
\* planes p of 2^p * 32 * (1 + 3 * columns + s) for the number s of
\* row-address-and-latch words per row.
C16_LengthAsClaimed ==
    t_pc = "done" => \E s \in 0 .. 8 : gpio_states.len = ClaimedLength(s)

\* C16 amended: the length of the returned timeline is 2 plus the sum over the
\* planes p of 2^p * 32 * (3 * columns + 5): one initial word, for every row
\* three words per column and five latch/address/enable words, one final word.
C16_LengthWithStartAndEnd ==
    t_pc = "done" =>
        gpio_states.len =
            2 + (Pow2(BIT_DEPTH) - 1) * TIMELINE_ROWS * (MATRIX_WIDTH * 3 + 5)

\* C16 witness: a timeline has been returned, all planes scanned
C16_Witness ==
    /\ t_pc = "done" /\ t_image = "ramp"
    /\ \A p \in 0 .. (BIT_DEPTH - 1) : t_scans[p] = Pow2(p)

\* C17: the last bus word of every returned timeline has the OE bit high.
C17_LastWordDisablesOutput ==
    t_pc = "done" => HasBit(gpio_states.last, t_pins.oe)

\* C17 witness: a timeline has been returned whose last word but one had the
\* output enabled
C17_Witness ==
    /\ t_pc = "done" /\ t_image = "white"
    /\ ~HasBit(gpio_states.prev, t_pins.oe)

\* two of the 14 roles are given the same position
SharesPosition(args) ==
    \E ra \in PinRoles, rb \in PinRoles : ra # rb /\ args[ra] = args[rb]

\* a role is given a position outside the 32-bit word
LeavesWord(args) == \E role \in PinRoles : args[role] >= 32

\* C18: Pins::new given an assignment in which two of the 14 roles share a
\* position returns no Pins value.
C18_SharedPositionRejected ==
    (pins_pc = "returned" /\ pins_value # << >>) => ~SharesPosition(pins_args)

\* C19: every Pins value that Pins::new returns has all 14 role positions
\* below 32; an assignment with a role at 32 or above is never accepted.
C19_ReturnedPositionsBelow32 ==
    pins_value # << >> =>
        \A role \in PinRoles : pins_value[1].drivers[role] < 32

\* C20: an invalid pin assignment (a shared position, or a position of 32 or
\* above) makes Pins::new return an error value to its caller; it neither
\* panics nor returns a Pins value.
C20_InvalidRejectedWithoutPanic ==
    (SharesPosition(pins_args) \/ LeavesWord(pins_args))
        => pins_pc \notin {"panicked", "returned"}

\* C21: render_unoptimized given an image that is not 64x64 pushes no bus
\* word and returns an error to its caller; it does not panic.
C21_BadDimensionsReturnError ==
    t_dimensions # << 64, 64 >> => (gpio_states.len = 0 /\ t_pc # "panicked")

\* the positions of the given roles in an assignment
PositionsOf(args, roles) == { args[role] : role \in roles }

RgbRoles == { "r1", "g1", "b1", "r2", "g2", "b2" }
AddrRoles == { "a", "b", "c", "d", "e" }

\* C22: for an assignment of 14 pairwise distinct positions below 32,
\* rgb_mask is exactly the OR of the six RGB positions, addr_mask exactly the
\* OR of the five address positions, get_all_pin_mask() exactly the OR of all
\* 14 positions, and rgb_mask, addr_mask and the CLK, LAT and OE bits are
\* pairwise disjoint.
C22_MasksExactAndDisjoint ==
    (pins_pc = "mask_read" /\ ~SharesPosition(pins_args) /\ ~LeavesWord(pins_args)) =>
        LET v == pins_value[1]
            ctl == << {pins_args.clk}, {pins_args.lat}, {pins_args.oe} >>
        IN  /\ v.rgb_mask = PositionsOf(pins_args, RgbRoles)
            /\ Cardinality(v.rgb_mask) = 6
            /\ v.addr_mask = PositionsOf(pins_args, AddrRoles)
            /\ Cardinality(v.addr_mask) = 5
            /\ all_pin_mask = PositionsOf(pins_args, PinRoles)
            /\ Cardinality(all_pin_mask) = 14
            /\ v.rgb_mask \cap v.addr_mask = {}
            /\ \A i \in 1 .. 3 :
                  /\ ctl[i] \cap (v.rgb_mask \cup v.addr_mask) = {}
                  /\ \A j \in 1 .. 3 : i # j => ctl[i] \cap ctl[j] = {}

\* C22 witness: the masks of a valid assignment that uses bit 0 and bit 31
C22_Witness ==
    /\ pins_pc = "mask_read" /\ pins_args = AltPins
    /\ 31 \in all_pin_mask /\ 0 \in all_pin_mask /\ 30 \in pins_value[1].addr_mask

\* C23: lightness_correct is monotonic non-decreasing over 0..255, with
\* lightness_correct(0) = 0 and lightness_correct(255) = 255; the inversion
\* 65535 - PWM_TABLE[v] stays within 16 bits and its top byte within 8 bits.
C23_LightnessCorrectMonotonic ==
    (c_pc = "returned" /\ c_fn = "lightness_correct") =>
        /\ \A u \in 0 .. c_value : lightness_correct(u) <= c_result
        /\ c_value = 0 => c_result = 0
        /\ c_value = 255 => c_result = 255
        /\ c_inverted \in 0 .. 65535
        /\ c_result = c_inverted \div 256
        /\ c_result \in U8

\* C23 witness: lightness_correct has returned for the largest argument
C23_Witness ==
    /\ c_pc = "returned" /\ c_fn = "lightness_correct"
    /\ c_value = 255 /\ c_result = 255 /\ c_inverted = 65535

\* C24: gamma_correct is monotonic non-decreasing over 0..255, with
\* gamma_correct(0) = 0 and gamma_correct(255) = 255.
C24_GammaCorrectMonotonic ==
    (c_pc = "returned" /\ c_fn = "gamma_correct") =>
        /\ \A u \in 0 .. c_value : gamma_correct(u) <= c_result
        /\ c_value = 0 => c_result = 0
        /\ c_value = 255 => c_result = 255
        /\ c_result \in U8

\* C24 witness: gamma_correct has returned for a middle argument, below the
\* identity
C24_Witness ==
    /\ c_pc = "returned" /\ c_fn = "gamma_correct"
    /\ c_value = 128 /\ c_result > 0 /\ c_result < 128

\* the bus words of the timeline known in this state
KnownWords ==
    (IF gpio_states.len >= 1 THEN { gpio_states.first, gpio_states.last } ELSE {})
        \cup { gpio_states.tail[i] : i \in 1 .. Len(gpio_states.tail) }

\* C25: every bus word render_unoptimized pushes has no bit set outside
\* get_all_pin_mask() of the Hub75 whose Pins were built from a valid
\* assignment, for every frame.
C25_WordsWithinPinMask ==
    \A word \in KnownWords : word \subseteq get_all_pin_mask(PinsOf(t_pins))

\* C25 witness: a word of the all-white frame with all six RGB bits, an
\* address bit and OE set, under the assignment that uses bit 31
C25_Witness ==
    /\ t_pins = AltPins /\ t_image = "white" /\ t_pc = "oe_low" /\ t_row = 31
    /\ Cardinality(gpio_states.last) >= 13
    /\ 31 \in gpio_states.last

C27_AtMostOneRowAfterStop ==
    /\ [](latchedAfterStop <= 1)
    /\ [][(rpc # "oe_high" /\ rpc' = "oe_high")
             => (rpc = "row_check" /\ refresh_running)]_vars
    /\ [][(~refresh_running /\ rpc = "row_check") => rpc' # "oe_high"]_vars

\* C27 witness: the thread has ended after a stop that came inside a row
\* step, whose latch pulse followed the stop
C27_Witness ==
    rpc = "done" /\ stopReturned /\ latchedAfterStop = 1

\* C28: when refresh_loop leaves its loops and when it has ended, CLK and LAT
\* are at their idle level 0: no clock or latch pulse is left unfinished.
C28_ExitWithIdleClkLat ==
    rpc \in {"final_oe", "done"} =>
        (gpio[PinConfig.clk] = 0 /\ gpio[PinConfig.lat] = 0)

\* C28 witness: the thread has ended after a stop that came while CLK was
\* high inside a row step; the pulse and the latch pulse were completed
C28_Witness ==
    rpc = "done" /\ latchedAfterStop = 1 /\ gpio[PinConfig.oe] = 1
        /\ gpio[PinConfig.clk] = 0 /\ gpio[PinConfig.lat] = 0

\* output-enabled words a row gets when the output stays enabled from its
\* re-enable word through all column steps of the following row
FullOnRun == 1 + 3 * MATRIX_WIDTH

\* C29 as claimed: in the cyclically replayed timeline every row's re-enable
\* word is followed by OE-low words through all column steps of the following
\* row, the last row of the cycle included, so every row gets the same number
\* of output-enabled words.
C29_EveryRowFullyEnabled ==
    /\ gpio_states.runs \subseteq {FullOnRun}
    /\ gpio_states.on_run <= FullOnRun
    /\ ColumnWordState => ~HasBit(gpio_states.last, t_pins.oe)

\* C29 amended: every row's re-enable word is followed by OE-low words
\* through all column steps of the following row, except for the last row of
\* the cycle: its re-enable word is followed by the final word with OE high,
\* and the first row of the cycle is loaded with OE high; the last row gets 1
\* output-enabled word, every other row 1 + 3 * columns.
C29_EveryRowButLastFullyEnabled ==
    /\ t_pc # "done" => gpio_states.runs \subseteq {FullOnRun}
    /\ t_pc = "done" => (gpio_states.runs = {FullOnRun, 1} /\ gpio_states.on_run = 0)
    /\ gpio_states.on_run <= FullOnRun
    /\ ColumnWordState =>
          (HasBit(gpio_states.last, t_pins.oe) <=> BeforeFirstEnable)
    /\ t_pc = "final_oe" => gpio_states.on_run = 1
    /\ (t_pc = "oe_high" /\ ~BeforeFirstEnable) => gpio_states.on_run = FullOnRun

\* C29 witness: the timeline is complete; the rows before the last were
\* enabled for the full run, the last one for a single word
C29_Witness ==
    /\ t_pc = "done" /\ t_image = "ramp"
    /\ gpio_states.runs = {FullOnRun, 1}
    /\ HasBit(gpio_states.first, t_pins.oe) /\ HasBit(gpio_states.last, t_pins.oe)

\* the number the five address lines of the panel encode, A = bit 0 ... E = bit 4
GpioAddress ==
    gpio[PinConfig.a] + 2 * gpio[PinConfig.b] + 4 * gpio[PinConfig.c]
        + 8 * gpio[PinConfig.d] + 16 * gpio[PinConfig.e]

\* C30: whenever OE is low in a timeline word or while refresh_loop runs, the
\* five address lines encode the scan row whose data the last latch pulse took
\* over.
C30_AddressMatchesLatchedRow ==
    /\ (gpio_states.len >= 1 /\ ~HasBit(gpio_states.last, t_pins.oe)) =>
          (t_latched_row >= 0
             /\ AddressOf(gpio_states.last, t_pins) = t_latched_row)
    /\ (rpc \notin {"none"} /\ gpio[PinConfig.oe] = 0) =>
          (latched_row >= 0 /\ GpioAddress = latched_row)

\* C30 witness: refresh_loop has enabled the output for the second scan row
C30_Witness ==
    /\ rpc = "delay" /\ gpio[PinConfig.oe] = 0
    /\ latched_row = 1 /\ GpioAddress = 1 /\ row = 1

\* the six RGB bits of a word
RgbBits(word, pins) == { pin \in RgbPins(pins) : HasBit(word, pin) }

\* the words of the column step the last word pushed belongs to: the data-set
\* word and, once pushed, the clock-low and the clock-high word
ColumnStepWords ==
    LET w == gpio_states.tail
        n == IF t_pc = "clk_low" THEN 1 ELSE IF t_pc = "clk_high" THEN 2 ELSE 3
    IN  [i \in 1 .. n |-> w[Len(w) - n + i]]

\* C31: in the timeline, replayed cyclically, there are exactly as many CLK
\* low-to-high pulses between two consecutive latch pulses as the panel has
\* columns, and in each column step the six RGB bits are the same in the
\* data-set word, the clock-low word and the clock-high word, CLK being low
\* in the second and high in the first and third.
C31_ClkPulsesAndStableData ==
    /\ gpio_states.clk_pulses \subseteq {MATRIX_WIDTH}
    /\ gpio_states.clk_rises <= MATRIX_WIDTH
    /\ t_pc = "oe_high" => gpio_states.clk_rises = MATRIX_WIDTH
    /\ t_pc = "done" =>
          /\ gpio_states.clk_rises = 0
          /\ gpio_states.clk_pulses = {MATRIX_WIDTH}
          /\ ~Differ(gpio_states.last, gpio_states.first, {t_pins.clk, t_pins.lat})
    /\ ColumnWordState =>
          LET w == ColumnStepWords
          IN  /\ \A i \in 1 .. Len(w) : RgbBits(w[i], t_pins) = RgbBits(w[1], t_pins)
              /\ HasBit(w[1], t_pins.clk)
              /\ Len(w) >= 2 => ~HasBit(w[2], t_pins.clk)
              /\ Len(w) = 3 => HasBit(w[3], t_pins.clk)

\* C31 witness: the last column step of a row with lit pixels is complete, a
\* latch pulse has been given before it, and the word before the data-set
\* word had other RGB bits
C31_Witness ==
    /\ t_pc = "oe_high" /\ t_image = "ramp" /\ t_row = 5
    /\ gpio_states.clk_pulses = {MATRIX_WIDTH}
    /\ gpio_states.clk_rises = MATRIX_WIDTH
    /\ RgbBits(gpio_states.last, t_pins) # {}
    /\ RgbBits(gpio_states.tail[3], t_pins) # RgbBits(gpio_states.last, t_pins)

\* thread t is in a row-scan step of refresh_loop: it is writing the pins or
\* has enabled the output for the row it wrote
InRowStep(t) == threads[t].rpc \in {"row_scan", "oe_low"}

\* the refresh threads that have not left refresh_loop
LiveThreads == { t \in 1 .. Len(threads) : threads[t].rpc # "done" }

\* C32: for any sequence of initialize_panel, begin and stop calls, at most
\* one refresh thread is in a row-scan step of refresh_loop at any time: no
\* two refresh loops write the same pins concurrently.
C32_AtMostOneRefreshLoop ==
    Cardinality({ t \in LiveThreads : InRowStep(t) }) <= 1

====
